---- MODULE Spec2Model ----
(***************************************************************************)
(* Model of the configuration core of confidence:                          *)
(*   src/confidence/utils.py   _merge, _key_origins, _split_keys           *)
(*   src/confidence/models.py  unwrap, Configuration, ConfigurationSequence*)
(*                                                                         *)
(* Python values are records tagged by their type in field k.  A str is a  *)
(* sequence of one-character strings, so that str.split, str.join and the  *)
(* reference pattern are computed on characters.  A dict is the sequence   *)
(* of its <<key, value>> items in insertion order (keys unique), a list    *)
(* is a sequence of values.  An int carries its decimal text.              *)
(***************************************************************************)
EXTENDS Integers, Sequences, FiniteSets, TLC

VARIABLES
    phase,      \* "start" | "util" | "failed" | "ready" | "done" | "operands" | "merged" | "again"
    root,       \* the Configuration object built by the constructor
    op,         \* the operation performed last, with its arguments
    ret,        \* what that operation returned or raised
    heap        \* the dict objects of the operands and results of a union

vars == <<phase, root, op, ret, heap>>

-----------------------------------------------------------------------------
(* Python values *)

PyInt(text)  == [k |-> "int", s |-> text]
PyStr(text)  == [k |-> "str", s |-> text]
PyDict(items) == [k |-> "dict", d |-> items]
PyList(elems) == [k |-> "list", e |-> elems]
PyNone == [k |-> "None"]
\* True or False, carried as its text
PyBool(text) == [k |-> "bool", s |-> text]

\* isinstance(value, Mapping) for the values that occur inside a source tree
IsMapping(value) == value.k = "dict"

\* dict operations on the item sequence
KeySet(d) == {d[i][1] : i \in 1..Len(d)}
HasKey(d, key) == \E i \in 1..Len(d) : d[i][1] = key
IndexOf(d, key) == CHOOSE i \in 1..Len(d) : d[i][1] = key
Item(d, key) == d[IndexOf(d, key)][2]
SetItem(d, key, value) ==
    IF HasKey(d, key) THEN [d EXCEPT ![IndexOf(d, key)] = <<key, value>>]
    ELSE Append(d, <<key, value>>)

\* Python's == on values: dicts compare without regard to item order
RECURSIVE PyEq(_, _)
PyEq(x, y) ==
    IF {x.k, y.k} = {"int", "bool"} THEN
        \* True == 1 and False == 0
        LET truth == IF x.k = "bool" THEN x ELSE y
            number == IF x.k = "bool" THEN y ELSE x
        IN  number.s = (IF truth.s = <<"T", "r", "u", "e">> THEN <<"1">> ELSE <<"0">>)
    ELSE IF x.k # y.k THEN FALSE
    ELSE IF x.k = "dict" THEN
        /\ KeySet(x.d) = KeySet(y.d)
        /\ \A key \in KeySet(x.d) : PyEq(Item(x.d, key), Item(y.d, key))
    ELSE IF x.k = "list" THEN
        /\ Len(x.e) = Len(y.e)
        /\ \A i \in 1..Len(x.e) : PyEq(x.e[i], y.e[i])
    ELSE x = y

-----------------------------------------------------------------------------
(* str operations *)

\* index of the first occurrence of character c in text, 0 when absent
Find(text, c) ==
    IF \E i \in 1..Len(text) : text[i] = c
    THEN CHOOSE i \in 1..Len(text) : text[i] = c /\ \A j \in 1..(i - 1) : text[j] # c
    ELSE 0

\* separator.join(parts)
RECURSIVE Join(_, _)
Join(separator, parts) ==
    IF parts = <<>> THEN <<>>
    ELSE IF Len(parts) = 1 THEN parts[1]
    ELSE parts[1] \o <<separator>> \o Join(separator, Tail(parts))

\* text.split(separator): every separator splits, empty parts are kept
RECURSIVE Split(_, _)
Split(text, separator) ==
    LET at == Find(text, separator) IN
    IF at = 0 THEN <<text>>
    ELSE <<SubSeq(text, 1, at - 1)>> \o Split(SubSeq(text, at + 1, Len(text)), separator)

-----------------------------------------------------------------------------
(* utils.py *)

\* the outcome of a call: exc is the exception class raised ("none" when the
\* call returned), key the path the exception carries
NoExc == "none"

\* _key_origins(value, origins=None, path): one (path, None) per leaf below
\* value; only the paths are kept, the origin is always None here
RECURSIVE _key_origins(_, _)
_key_origins(value, path) ==
    IF IsMapping(value) THEN
        LET RECURSIVE items(_)
            items(i) ==
                IF i > Len(value.d) THEN <<>>
                ELSE _key_origins(value.d[i][2], Append(path, value.d[i][1])) \o items(i + 1)
        IN items(1)
    ELSE <<path>>

\* the assignment of line 77 left out: a conflicting value in left stays
OverwriteKeepsLeft(left, key, value) == left

\* `left[key] = right[key]` in the else branch of the conflict test (line 77)
Overwrite(left, key, value) == SetItem(left, key, value)

\* the conflict reported by its last key instead of the joined path
ConflictPathLastKey(separator, merge_path) == merge_path[Len(merge_path)]

\* conflict_path = separator.join(merge_path) (line 73)
ConflictPath(separator, merge_path) == Join(separator, merge_path)

\* _merge(left, right, separator, path, conflict): the loop `for key in right`
\* from position i on.  left is updated in place in the code; here the updated
\* left is returned, together with the exception that ended the loop (if any)
\* and the origins yielded so far.
RECURSIVE _merge(_, _, _, _, _, _)
_merge(left, right, separator, path, conflict, i) ==
    IF i > Len(right) THEN [left |-> left, exc |-> NoExc, key |-> <<>>, yielded |-> <<>>]
    ELSE
        LET key == right[i][1]
            value == right[i][2]
            merge_path == Append(path, key)
            step ==
                IF HasKey(left, key) THEN
                    IF IsMapping(Item(left, key)) /\ IsMapping(value) THEN
                        \* recurse, merge left and right dict values
                        LET sub == _merge(Item(left, key).d, value.d, separator, merge_path, conflict, 1)
                        IN  [sub EXCEPT !.left = SetItem(left, key, PyDict(sub.left))]
                    ELSE IF ~PyEq(Item(left, key), value) THEN
                        IF conflict = "error" THEN
                            [left |-> left, exc |-> "MergeConflictError",
                             key |-> ConflictPath(separator, merge_path), yielded |-> <<>>]
                        ELSE
                            [left |-> Overwrite(left, key, value), exc |-> NoExc, key |-> <<>>,
                             yielded |-> _key_origins(value, merge_path)]
                    ELSE
                        \* left[key] is already equal to right[key], no action needed
                        [left |-> left, exc |-> NoExc, key |-> <<>>, yielded |-> <<>>]
                ELSE
                    [left |-> SetItem(left, key, value), exc |-> NoExc, key |-> <<>>,
                     yielded |-> _key_origins(value, merge_path)]
        IN  IF step.exc # NoExc THEN step
            ELSE LET rest == _merge(step.left, right, separator, path, conflict, i + 1)
                 IN  [rest EXCEPT !.yielded = step.yielded \o @]

\* key.endswith(separator) in place of `separator in key`
DottedAtEnd(key, separator) == Len(key) > 0 /\ key[Len(key)] = separator

\* `separator in key` (line 116)
Dotted(key, separator) == Find(key, separator) # 0

\* the merge in _split_keys run with the overwrite policy
SplitConflictOverwrite == "overwrite"

\* the conflict policy of the merge in _split_keys: the default of _merge
SplitConflict == "error"

\* key.rsplit(separator, 1): split at the last separator
SplitLast(key, separator) ==
    LET at == CHOOSE i \in 1..Len(key) : key[i] = separator /\ \A j \in (i + 1)..Len(key) : key[j] # separator
    IN  <<SubSeq(key, 1, at - 1), SubSeq(key, at + 1, Len(key))>>

\* key.split(separator, 1): the part before the first separator, and the rest
SplitFirst(key, separator) ==
    <<SubSeq(key, 1, Find(key, separator) - 1),
      SubSeq(key, Find(key, separator) + 1, Len(key))>>

\* _split_keys(mapping, separator): the loop over mapping.items() from
\* position i on, with the result built so far.  Keys are always str in this
\* model and none of them is a member name of Configuration, so the ValueError
\* for non-str keys and the collision warning are never triggered.
RECURSIVE _split_keys(_, _, _, _)
_split_keys(mapping, separator, result, i) ==
    IF i > Len(mapping) THEN [result |-> result, exc |-> NoExc, key |-> <<>>]
    ELSE
        LET key0 == mapping[i][1]
            value0 == mapping[i][2]
            \* recursively split key(s) in value
            inner == IF IsMapping(value0) THEN _split_keys(value0.d, separator, <<>>, 1)
                     ELSE [result |-> <<>>, exc |-> NoExc, key |-> <<>>]
            value1 == IF IsMapping(value0) THEN PyDict(inner.result) ELSE value0
            dotted == Dotted(key0, separator)
            key == IF dotted THEN SplitFirst(key0, separator)[1] ELSE key0
            \* use rest as the new key of value, recursively split that
            outer == IF dotted
                     THEN _split_keys(<< <<SplitFirst(key0, separator)[2], value1>> >>, separator, <<>>, 1)
                     ELSE [result |-> <<>>, exc |-> NoExc, key |-> <<>>]
            value == IF dotted THEN PyDict(outer.result) ELSE value1
            \* merge the result so far with the current key and value
            merged == _merge(result, << <<key, value>> >>, ".", <<>>, SplitConflict, 1)
        IN  IF inner.exc # NoExc THEN [result |-> result, exc |-> inner.exc, key |-> inner.key]
            ELSE IF outer.exc # NoExc THEN [result |-> result, exc |-> outer.exc, key |-> outer.key]
            ELSE IF merged.exc # NoExc THEN [result |-> merged.left, exc |-> merged.exc, key |-> merged.key]
            ELSE _split_keys(mapping, separator, merged.left, i + 1)

-----------------------------------------------------------------------------
(* models.py *)

\* the two members of the Missing enum, as passed to the constructor
MissingSILENT == [k |-> "Missing", name |-> "SILENT"]
MissingERROR  == [k |-> "Missing", name |-> "ERROR"]

\* references to the two module-level singletons
NoDefault     == [k |-> "NoDefault"]
NotConfigured == [k |-> "NotConfigured"]

\* what a call returned, or the exception it raised: its class, the kind of
\* message, the path named in the message and its key attribute
Returned(value) == [exc |-> NoExc, msg |-> "", named |-> <<>>, key |-> <<>>, val |-> value]
Raised(exception, msg, named, key) ==
    [exc |-> exception, msg |-> msg, named |-> named, key |-> key, val |-> PyNone]

\* unwrap(source): wrapper types become their simple counterparts
RECURSIVE unwrap(_)
unwrap(source) ==
    IF source.k = "Configuration" THEN unwrap(PyDict(source.source))
    ELSE IF source.k = "ConfigurationSequence" THEN
        PyList([i \in 1..Len(source.source) |-> unwrap(source.source[i])])
    ELSE IF source.k = "dict" THEN
        PyDict([i \in 1..Len(source.d) |-> <<source.d[i][1], unwrap(source.d[i][2])>>])
    ELSE source

\* bool(source) as used by `if source:` on a constructor argument
Truthy(source) ==
    IF source.k = "dict" THEN Len(source.d) > 0
    ELSE IF source.k = "Configuration" THEN Len(source.source) > 0
    ELSE source.k # "NotConfigured"

\* lines 94-101: the _missing attribute for a constructor argument
MissingAttribute(missing) ==
    IF missing = MissingSILENT THEN NotConfigured
    ELSE IF missing = MissingERROR THEN NoDefault
    ELSE missing

\* a Configuration object; _root is kept as the state of the object it points to
Object(source, missing, rootSource) ==
    [k |-> "Configuration", source |-> source, missing |-> missing,
     root |-> [source |-> rootSource, missing |-> missing]]

\* the sources merged with the error policy
InitConflictError == "error"

\* conflict=Conflict.OVERWRITE (line 111)
InitConflict == "overwrite"

\* Configuration.__init__, lines 103-112: the loop over sources from position
\* i on, self._source being tree so far
RECURSIVE MergeSources(_, _, _)
MergeSources(srcs, tree, i) ==
    IF i > Len(srcs) THEN [source |-> tree, exc |-> NoExc, key |-> <<>>]
    ELSE IF ~Truthy(srcs[i]) THEN MergeSources(srcs, tree, i + 1)
    ELSE
        LET split == _split_keys(unwrap(srcs[i]).d, ".", <<>>, 1)
            merged == _merge(tree, split.result, ".", <<>>, InitConflict, 1)
        IN  IF split.exc # NoExc THEN [source |-> tree, exc |-> split.exc, key |-> split.key]
            ELSE IF merged.exc # NoExc THEN [source |-> merged.left, exc |-> merged.exc, key |-> merged.key]
            ELSE MergeSources(srcs, merged.left, i + 1)

\* Configuration(*sources, missing=missing)
Configuration(srcs, missing) ==
    LET Constructed(built) ==
            IF built.exc # NoExc THEN Raised(built.exc, "merge conflict at", built.key, built.key)
            ELSE Returned(Object(built.source, MissingAttribute(missing), built.source))
    IN  Constructed(MergeSources(srcs, <<>>, 1))

\* a namespace over value that is its own root
_wrapOwnRoot(self, value) ==
    [k |-> "Configuration", source |-> value.d, missing |-> self.missing,
     root |-> [source |-> value.d, missing |-> self.missing]]

\* a namespace over value that does not copy the policy of self
_wrapSilent(self, value) ==
    [k |-> "Configuration", source |-> value.d, missing |-> NotConfigured, root |-> self.root]

\* Configuration._wrap
_wrap(self, value) ==
    [k |-> "Configuration", source |-> value.d, missing |-> self.missing, root |-> self.root]

\* ConfigurationSequence(source, root)
ConfigurationSequence(source, rootOf) ==
    [k |-> "ConfigurationSequence", source |-> source.e, root |-> rootOf]

\* the root object a _root field points to
RootObject(rootOf) ==
    [k |-> "Configuration", source |-> rootOf.source, missing |-> rootOf.missing, root |-> rootOf]

\* the characters that cannot occur in the path of a reference: [^${}]
Special == {"$", "{", "}"}

\* _reference_pattern matches at start..stop of text, with path in between
MatchesAt(text, start, stop) ==
    /\ start + 3 <= stop /\ stop <= Len(text)
    /\ text[start] = "$" /\ text[start + 1] = "{" /\ text[stop] = "}"
    /\ \A t \in (start + 2)..(stop - 1) : text[t] \notin Special

HasMatch(text) == \E start \in 1..Len(text) : \E stop \in 1..Len(text) : MatchesAt(text, start, stop)

\* _reference_pattern.search(text): the leftmost match
Search(text) ==
    LET start == CHOOSE i \in 1..Len(text) :
                    /\ \E stop \in 1..Len(text) : MatchesAt(text, i, stop)
                    /\ \A j \in 1..(i - 1) : \A stop \in 1..Len(text) : ~MatchesAt(text, j, stop)
        stop == CHOOSE j \in 1..Len(text) : MatchesAt(text, start, j)
    IN  [start |-> start, stop |-> stop, path |-> SubSeq(text, start + 2, stop - 1)]

\* ', '.join(texts)
RECURSIVE CommaJoin(_)
CommaJoin(texts) ==
    IF texts = <<>> THEN <<>>
    ELSE IF Len(texts) = 1 THEN texts[1]
    ELSE texts[1] \o <<",", " ">> \o CommaJoin(Tail(texts))

\* _repr_value(value), lines 387-401
_repr_value(value) ==
    IF value.k = "dict" THEN
        <<"m", "a", "p", "p", "i", "n", "g", "(", "k", "e", "y", "s", "=", "[">> \o CommaJoin([i \in 1..Len(value.d) |-> <<"'">> \o value.d[i][1] \o <<"'">>])
                  \o <<"]", ")">>
    ELSE IF value.k = "list" THEN <<"s", "e", "q", "u", "e", "n", "c", "e", "(", "[", ".", ".", ".", "]", ")">>
    ELSE IF value.k = "str" THEN <<"'">> \o value.s \o <<"'">>
    ELSE IF value.k = "None" THEN <<"N", "o", "n", "e">>
    ELSE value.s

\* str(reference) as rendered by the f-string of line 144
Format(reference) ==
    IF reference.k = "ConfigurationSequence" THEN
        <<"c", "o", "n", "f", "i", "d", "e", "n", "c", "e", ".", "m", "o", "d", "e", "l", "s", ".", "C", "o", "n", "f", "i", "g", "u", "r", "a", "t", "i", "o", "n", "S", "e", "q", "u", "e", "n", "c", "e", "(", "[">> \o CommaJoin([i \in 1..Len(reference.source) |-> _repr_value(reference.source[i])])
               \o <<"]", ")">>
    ELSE IF reference.k = "Configuration" THEN
        \* Configuration.__repr__, lines 275-277
        <<"c", "o", "n", "f", "i", "d", "e", "n", "c", "e", ".", "m", "o", "d", "e", "l", "s", ".", "C", "o", "n", "f", "i", "g", "u", "r", "a", "t", "i", "o", "n", "(", "k", "e", "y", "s", "=", "[">> \o CommaJoin([i \in 1..Len(reference.source) |-> <<"'">> \o reference.source[i][1] \o <<"'">>])
               \o <<"]", ")">>
    ELSE IF reference.k = "None" THEN <<"N", "o", "n", "e">>
    ELSE reference.s

\* exception classes that `except KeyError` catches
KeyErrors == {"KeyError", "ConfigurationError", "MergeConflictError", "NotConfiguredError",
              "ConfiguredReferenceError"}

\* lines 187-189: take the steps of a path one at a time; subscripting a dict
\* with an absent key raises KeyError, subscripting a list, str, int or None
\* with a str raises TypeError
RECURSIVE Walk(_, _, _)
Walk(value, steps, steps_taken) ==
    IF steps = <<>> THEN [exc |-> NoExc, value |-> value, steps_taken |-> steps_taken]
    ELSE IF value.k # "dict" THEN
        [exc |-> "TypeError", value |-> value, steps_taken |-> Append(steps_taken, Head(steps))]
    ELSE IF ~HasKey(value.d, Head(steps)) THEN
        [exc |-> "KeyError", value |-> value, steps_taken |-> Append(steps_taken, Head(steps))]
    ELSE Walk(Item(value.d, Head(steps)), Tail(steps), Append(steps_taken, Head(steps)))

\* as_type(value) for the callables used here: "raw" returns its argument,
\* any other name is a callable that raises the exception of that name
ApplyType(as_type, value) ==
    IF as_type = "raw" THEN Returned(value)
    ELSE Raised(as_type, "", <<>>, <<>>)

\* get's parameter `default` defaulting to NoDefault
GetDefaultRaises == NoDefault

\* the default of get's parameter `default` (line 160)
GetDefault == PyNone

RECURSIVE get(_, _, _, _, _)

\* every reference treated as part of a template
IsTemplateAlways(value, match) == TRUE

\* match.span(0) != (0, len(value)) (line 135)
IsTemplate(value, match) == match.start # 1 \/ match.stop # Len(value.s)

\* the namespace test left out
IsNamespaceNever(reference) == FALSE

\* isinstance(reference, Configuration) (line 137)
IsNamespace(reference) == reference.k = "Configuration"

\* the error raised for a path seen before (line 131)
RecursiveError(path) ==
    Raised("ConfiguredReferenceError", "cannot resolve recursive reference", path, path)

\* the error of line 155 with the whole path of the token as its key
UnresolvableWholePath(path, found) ==
    Raised("ConfiguredReferenceError", "unable to resolve referenced key", path, path)

\* the handler of lines 153-155: the message names the path of the token, the
\* key is the key of the NotConfiguredError caught
Unresolvable(path, found) ==
    Raised("ConfiguredReferenceError", "unable to resolve referenced key", path, found.key)

\* Configuration._resolve: the while loop of lines 127-150 and the handler of
\* lines 153-155; references is the set of paths seen
RECURSIVE ResolveLoop(_, _, _)
ResolveLoop(self, value, references) ==
    IF value.k # "str" THEN Returned(value)
    ELSE IF ~HasMatch(value.s) THEN Returned(value)
    ELSE
        LET match == Search(value.s)
            path == match.path
            found == get(RootObject(self.root), path, NoDefault, "None", FALSE)
            reference == found.val
        IN  IF path \in references THEN RecursiveError(path)
            ELSE IF found.exc = "NotConfiguredError" THEN Unresolvable(path, found)
            ELSE IF found.exc # NoExc THEN found
            ELSE IF IsTemplate(value, match) THEN
                \* matched a reference inside of another value (template)
                IF IsNamespace(reference) THEN
                    Raised("ConfiguredReferenceError", "cannot insert namespace", path, path)
                ELSE ResolveLoop(self,
                                 PyStr(SubSeq(value.s, 1, match.start - 1) \o Format(reference)
                                       \o SubSeq(value.s, match.stop + 1, Len(value.s))),
                                 references \cup {path})
            ELSE ResolveLoop(self, reference, references \cup {path})

_resolve(self, value) == ResolveLoop(self, value, {})

\* one pass of the while statement of lines 127-150: the test of line 127
\* and, when it holds, the body; done says that _resolve has returned out or
\* raised it, otherwise value and references are those of the next pass
ResolveIteration(self, value, references) ==
    IF value.k # "str" \/ ~HasMatch(value.s) THEN
        [done |-> TRUE, out |-> Returned(value), value |-> value, references |-> references]
    ELSE
        LET match == Search(value.s)
            path == match.path
            Raising(raised) ==
                [done |-> TRUE, out |-> raised, value |-> value, references |-> references]
            Continuing(next) ==
                [done |-> FALSE, out |-> Returned(next), value |-> next,
                 references |-> references \cup {path}]
            After(found) ==
                IF path \in references THEN Raising(RecursiveError(path))
                ELSE IF found.exc = "NotConfiguredError" THEN Raising(Unresolvable(path, found))
                ELSE IF found.exc # NoExc THEN Raising(found)
                ELSE IF IsTemplate(value, match) THEN
                    IF IsNamespace(found.val) THEN
                        Raising(Raised("ConfiguredReferenceError", "cannot insert namespace", path, path))
                    ELSE Continuing(PyStr(SubSeq(value.s, 1, match.start - 1) \o Format(found.val)
                                          \o SubSeq(value.s, match.stop + 1, Len(value.s))))
                ELSE Continuing(found.val)
        IN  After(get(RootObject(self.root), path, NoDefault, "None", FALSE))

\* Configuration.get, lines 183-214
get(self, path, default, as_type, resolve_references) ==
    LET walk == Walk(PyDict(self.source), Split(path, "."), <<>>)
        value == walk.value
        body ==
            IF walk.exc # NoExc THEN Raised(walk.exc, "", <<>>, <<>>)
            ELSE IF as_type # "None" THEN ApplyType(as_type, value)
            ELSE IF IsMapping(value) THEN Returned(_wrap(self, value))
            ELSE IF value.k = "list" THEN Returned(ConfigurationSequence(value, self.root))
            ELSE IF resolve_references /\ value.k = "str" THEN _resolve(self, value)
            ELSE Returned(value)
    IN  IF body.exc = "ConfiguredReferenceError" THEN body
        ELSE IF body.exc \in KeyErrors THEN
            IF default # NoDefault THEN Returned(default)
            ELSE Raised("NotConfiguredError", "no configuration for key",
                        Join(".", walk.steps_taken), Join(".", walk.steps_taken))
        ELSE body

\* Configuration.__getattr__
__getattr__(self, attr) ==
    LET found == get(self, attr, self.missing, "None", TRUE)
    IN  IF found.exc = "NotConfiguredError" THEN Raised("AttributeError", "", attr, attr)
        ELSE found

\* Configuration.__getitem__
__getitem__(self, item) == get(self, item, NoDefault, "None", TRUE)

\* the sentinel's _missing left as the NotConfigured type
SentinelMissingType == [k |-> "type", name |-> "NotConfigured"]

\* NotConfigured._missing = NotConfigured (line 315)
SentinelMissing == NotConfigured

\* the state of the object a value refers to: the NotConfigured singleton is
\* an instance without sources, its own root; a namespace carries its state
Deref(value) ==
    IF value = NotConfigured THEN
        [k |-> "NotConfigured", source |-> <<>>, missing |-> SentinelMissing,
         root |-> [source |-> <<>>, missing |-> SentinelMissing]]
    ELSE value

\* ConfigurationSequence.__getitem__ for an int item (0-based, negative counts
\* from the end)
SequenceGetItem(self, item) ==
    LET at == IF item < 0 THEN Len(self.source) + item + 1 ELSE item + 1
        value == self.source[at]
    IN  IF at < 1 \/ at > Len(self.source) THEN Raised("IndexError", "", <<>>, <<>>)
        ELSE IF IsMapping(value) THEN Returned(_wrap(RootObject(self.root), value))
        ELSE IF value.k = "list" THEN Returned(ConfigurationSequence(value, self.root))
        ELSE IF value.k = "str" THEN _resolve(RootObject(self.root), value)
        ELSE Returned(value)

PyTrue == PyBool(<<"T", "r", "u", "e">>)
PyFalse == PyBool(<<"F", "a", "l", "s", "e">>)

\* the (key, value) pairs of mapping.items(), each value as the outcome of
\* mapping[key]: a Configuration wraps and resolves (__iter__, __getitem__),
\* a dict hands out what it holds
ItemsOf(mapping) ==
    IF mapping.k = "Configuration" THEN
        [i \in 1..Len(mapping.source) |->
            <<mapping.source[i][1], __getitem__(mapping, mapping.source[i][1])>>]
    ELSE [i \in 1..Len(mapping.d) |-> <<mapping.d[i][1], Returned(mapping.d[i][2])>>]

\* index of the first item whose value raised, 0 when none did
FirstRaised(items) ==
    IF \E i \in 1..Len(items) : items[i][2].exc # NoExc
    THEN CHOOSE i \in 1..Len(items) :
            items[i][2].exc # NoExc /\ \A j \in 1..(i - 1) : items[j][2].exc = NoExc
    ELSE 0

\* Configuration inherits __eq__ from Mapping:
\*     dict(self.items()) == dict(other.items())
\* MappingEq is that method for a Configuration self and a Mapping other,
\* DictEqFrom the comparison of the two dicts from item i on, ValueEq is
\* x == y for two values: a ConfigurationSequence inherits the identity
\* comparison of object, and the views made for a comparison are new objects
RECURSIVE MappingEq(_, _)
RECURSIVE DictEqFrom(_, _, _)
RECURSIVE ValueEq(_, _)
ValueEq(x, y) ==
    IF x.k = "Configuration" /\ y.k \in {"Configuration", "dict"} THEN MappingEq(x, y)
    ELSE IF x.k = "dict" /\ y.k = "Configuration" THEN MappingEq(y, x)
    ELSE IF "Configuration" \in {x.k, y.k} THEN Returned(PyFalse)
    ELSE IF "ConfigurationSequence" \in {x.k, y.k} THEN Returned(PyFalse)
    ELSE Returned(IF PyEq(x, y) THEN PyTrue ELSE PyFalse)

DictEqFrom(a, b, i) ==
    IF i > Len(a) THEN Returned(PyTrue)
    ELSE IF ~HasKey(b, a[i][1]) THEN Returned(PyFalse)
    ELSE LET same == ValueEq(a[i][2].val, Item(b, a[i][1]).val)
         IN  IF same.exc # NoExc \/ same.val = PyFalse THEN same
             ELSE DictEqFrom(a, b, i + 1)

MappingEq(self, other) ==
    LET Compared(a, b) ==
            IF FirstRaised(a) # 0 THEN a[FirstRaised(a)][2]
            ELSE IF FirstRaised(b) # 0 THEN b[FirstRaised(b)][2]
            ELSE IF Len(a) # Len(b) THEN Returned(PyFalse)
            ELSE DictEqFrom(a, b, 1)
    IN  Compared(ItemsOf(self), ItemsOf(other))

\* x == y for a ConfigurationSequence x or y: the class defines no __eq__ and
\* Sequence has none, so the identity comparison of object decides
SequenceEq(x, y, identical) == Returned(IF identical THEN PyTrue ELSE PyFalse)

\* the elements of a sequence as indexing hands them out
Elements(sequence) ==
    IF sequence.k = "ConfigurationSequence" THEN
        [i \in 1..Len(sequence.source) |-> SequenceGetItem(sequence, i - 1)]
    ELSE [i \in 1..Len(sequence.e) |-> Returned(sequence.e[i])]

-----------------------------------------------------------------------------
(* construction and union on a heap of dict objects: the same code, with the
   identity of every dict kept, so that an update in place shows in every
   object that refers to the dict *)

\* a reference to the dict object heap[id]; a dict object is its item
\* sequence, whose values are references, lists (of references, lists and
\* scalars) that no code updates, or scalars
Ref(id) == [k |-> "ref", id |-> id]

\* the plain value a heap value stands for
RECURSIVE TreeOf(_, _)
TreeOf(h, value) ==
    IF value.k = "ref" THEN
        PyDict([i \in 1..Len(h[value.id]) |-> <<h[value.id][i][1], TreeOf(h, h[value.id][i][2])>>])
    ELSE IF value.k = "Configuration" THEN TreeOf(h, value.source)
    ELSE IF value.k = "list" THEN PyList([i \in 1..Len(value.e) |-> TreeOf(h, value.e[i])])
    ELSE value

\* a new dict object with the given items
NewDict(h, items) == [h |-> Append(h, items), v |-> Ref(Len(h) + 1), exc |-> NoExc]

\* the evaluation of a display: one new dict object per mapping in value,
\* those inside a list included
RECURSIVE Display(_, _)
Display(h, value) ==
    IF value.k = "list" THEN
        LET RECURSIVE elements(_, _, _)
            elements(hh, i, acc) ==
                IF i > Len(value.e) THEN [h |-> hh, v |-> PyList(acc), exc |-> NoExc]
                ELSE LET sub == Display(hh, value.e[i])
                     IN  elements(sub.h, i + 1, Append(acc, sub.v))
        IN  elements(h, 1, <<>>)
    ELSE IF value.k # "dict" THEN [h |-> h, v |-> value, exc |-> NoExc]
    ELSE
        LET RECURSIVE items(_, _, _)
            items(hh, i, acc) ==
                IF i > Len(value.d) THEN NewDict(hh, acc)
                ELSE LET sub == Display(hh, value.d[i][2])
                     IN  items(sub.h, i + 1, Append(acc, <<value.d[i][1], sub.v>>))
        IN  items(h, 1, <<>>)

\* unwrap(source): a Configuration becomes its _source, and every mapping a
\* new dict of its unwrapped values (lines 37-50)
RECURSIVE HeapUnwrap(_, _)
HeapUnwrap(h, source) ==
    IF source.k = "Configuration" THEN HeapUnwrap(h, source.source)
    ELSE IF source.k = "ref" THEN
        LET RECURSIVE items(_, _, _)
            items(hh, i, acc) ==
                IF i > Len(h[source.id]) THEN NewDict(hh, acc)
                ELSE LET sub == HeapUnwrap(hh, h[source.id][i][2])
                     IN  items(sub.h, i + 1, Append(acc, <<h[source.id][i][1], sub.v>>))
        IN  items(h, 1, <<>>)
    ELSE [h |-> h, v |-> source, exc |-> NoExc]

\* _merge(left, right, conflict=conflict): the loop `for key in right` from
\* position i on, updating the dict object left in place; `left[key] =
\* right[key]` makes left refer to the very object right refers to
RECURSIVE HeapMerge(_, _, _, _, _)
HeapMerge(h, left, right, conflict, i) ==
    IF i > Len(h[right]) THEN [h |-> h, v |-> Ref(left), exc |-> NoExc]
    ELSE
        LET key == h[right][i][1]
            value == h[right][i][2]
            mine == Item(h[left], key)
            step ==
                IF HasKey(h[left], key) THEN
                    IF mine.k = "ref" /\ value.k = "ref" THEN
                        HeapMerge(h, mine.id, value.id, conflict, 1)
                    ELSE IF ~PyEq(TreeOf(h, mine), TreeOf(h, value)) THEN
                        IF conflict = "error" THEN
                            [h |-> h, v |-> Ref(left), exc |-> "MergeConflictError"]
                        ELSE
                            [h |-> [h EXCEPT ![left] = Overwrite(@, key, value)],
                             v |-> Ref(left), exc |-> NoExc]
                    ELSE [h |-> h, v |-> Ref(left), exc |-> NoExc]
                ELSE
                    [h |-> [h EXCEPT ![left] = SetItem(@, key, value)],
                     v |-> Ref(left), exc |-> NoExc]
        IN  IF step.exc # NoExc THEN step
            ELSE HeapMerge(step.h, left, right, conflict, i + 1)

\* _split_keys(mapping): HeapSplitKeys makes `result = {}` and HeapSplitLoop
\* is the loop over mapping.items() from position i on; the dicts
\* {rest: value} and {key: value} are objects of their own
RECURSIVE HeapSplitKeys(_, _)
RECURSIVE HeapSplitLoop(_, _, _, _)
HeapSplitKeys(h, mapping) ==
    LET result == NewDict(h, <<>>)
    IN  HeapSplitLoop(result.h, mapping, result.v.id, 1)

HeapSplitLoop(h, mapping, result, i) ==
    IF i > Len(h[mapping]) THEN [h |-> h, v |-> Ref(result), exc |-> NoExc]
    ELSE
        LET key0 == h[mapping][i][1]
            value0 == h[mapping][i][2]
            inner == IF value0.k = "ref" THEN HeapSplitKeys(h, value0.id)
                     ELSE [h |-> h, v |-> value0, exc |-> NoExc]
            dotted == Dotted(key0, ".")
            key == IF dotted THEN SplitFirst(key0, ".")[1] ELSE key0
            rest == NewDict(inner.h, << <<SplitFirst(key0, ".")[2], inner.v>> >>)
            outer == IF dotted THEN HeapSplitKeys(rest.h, rest.v.id) ELSE inner
            single == NewDict(outer.h, << <<key, outer.v>> >>)
            merged == HeapMerge(single.h, result, single.v.id, SplitConflict, 1)
        IN  IF inner.exc # NoExc THEN inner
            ELSE IF outer.exc # NoExc THEN outer
            ELSE IF merged.exc # NoExc THEN merged
            ELSE HeapSplitLoop(merged.h, mapping, result, i + 1)

\* bool(source) of a constructor argument on the heap
HeapTruthy(h, source) ==
    IF source.k = "Configuration" THEN Len(h[source.source.id]) > 0
    ELSE IF source.k = "ref" THEN Len(h[source.id]) > 0
    ELSE Truthy(source)

\* the first source's dict taken as the new namespace's _source
SourceOfFirst(h, srcs) ==
    IF Len(srcs) > 0 /\ srcs[1].k = "Configuration" THEN [h |-> h, v |-> srcs[1].source, exc |-> NoExc]
    ELSE NewDict(h, <<>>)

\* self._source = {} (line 103)
NewSource(h, srcs) == NewDict(h, <<>>)

\* Configuration.__init__ on the heap: the loop over sources from position i on
RECURSIVE HeapMergeSources(_, _, _, _)
HeapMergeSources(h, srcs, source, i) ==
    IF i > Len(srcs) THEN [h |-> h, v |-> Ref(source), exc |-> NoExc]
    ELSE IF ~HeapTruthy(h, srcs[i]) THEN HeapMergeSources(h, srcs, source, i + 1)
    ELSE
        LET AfterMerge(split, merged) ==
                IF split.exc # NoExc THEN split
                ELSE IF merged.exc # NoExc THEN merged
                ELSE HeapMergeSources(merged.h, srcs, source, i + 1)
            AfterSplit(split) ==
                AfterMerge(split, HeapMerge(split.h, source, split.v.id, InitConflict, 1))
            AfterUnwrap(unwrapped) == AfterSplit(HeapSplitKeys(unwrapped.h, unwrapped.v.id))
        IN  AfterUnwrap(HeapUnwrap(h, srcs[i]))

\* Configuration(*srcs, missing=missing) on the heap: the heap afterwards and
\* the new object, or the exception raised
HeapConfiguration(h, srcs, missing) ==
    LET source == NewSource(h, srcs)
        HeapConstructed(built) ==
            IF built.exc # NoExc THEN built
            ELSE [h |-> built.h, exc |-> NoExc,
                  v |-> [k |-> "Configuration", source |-> source.v,
                         missing |-> MissingAttribute(missing)]]
    IN  HeapConstructed(HeapMergeSources(source.h, srcs, source.v.id, 1))

\* the _missing attribute of the first source that is a namespace only
MissingOfFirst(srcs) ==
    LET namespaces == {i \in 1..Len(srcs) : srcs[i].k = "Configuration"}
    IN  {srcs[i].missing : i \in {i \in namespaces : \A j \in namespaces : i <= j}}

\* the _missing attributes of the sources that are namespaces (line 68)
MissingOf(srcs) == {srcs[i].missing : i \in {i \in 1..Len(srcs) : srcs[i].k = "Configuration"}}

\* merge(*srcs, missing=missing); missing is None when it is not passed.
\* The policies are collected in a set: a list or a dict among them cannot
\* be hashed, which raises TypeError
merge(h, srcs, missing) ==
    LET policies == MissingOf(srcs)
        chosen == IF missing # PyNone THEN missing
                  ELSE IF policies = {} THEN MissingSILENT
                  ELSE CHOOSE policy \in policies : TRUE
    IN  IF missing = PyNone /\ \E policy \in policies : policy.k \in {"list", "dict"} THEN
            [h |-> h, v |-> PyNone, exc |-> "TypeError"]
        ELSE IF missing = PyNone /\ Cardinality(policies) > 1 THEN
            [h |-> h, v |-> PyNone, exc |-> "ValueError"]
        ELSE HeapConfiguration(h, srcs, chosen)

\* the NotConfigured sentinel: an instance made without sources, with the
\* silent policy, whose _missing is the sentinel itself
Sentinel(h) == HeapConfiguration(h, <<>>, MissingSILENT)

\* Configuration.__or__
__or__(h, self, other) ==
    IF other.k \notin {"ref", "Configuration"} THEN [h |-> h, v |-> PyNone, exc |-> "NotImplemented"]
    ELSE merge(h, <<self, other>>, PyNone)

\* Configuration.__ror__
__ror__(h, self, other) ==
    IF other.k \notin {"ref", "Configuration"} THEN [h |-> h, v |-> PyNone, exc |-> "NotImplemented"]
    ELSE merge(h, <<other, self>>, PyNone)

\* left | right: the method of the operand that is a namespace; TypeError
\* when that method is not implemented for the other operand
BinaryOr(h, left, right) ==
    LET Outcome(tried) ==
            IF tried.exc = "NotImplemented" THEN [tried EXCEPT !.exc = "TypeError"] ELSE tried
    IN  Outcome(IF left.k = "Configuration" THEN __or__(h, left, right)
                ELSE __ror__(h, right, left))

-----------------------------------------------------------------------------
(* namespaces and sequence views as objects with identity: objs is the table
   of the objects made so far, an object's root the index of the object its
   _root points to, its parent the index of the object it was obtained from
   (0 for a constructed or restored one) *)

\* the object as the lookups above take it, its _root as the state of the
\* object pointed to
ObjectAt(objs, id) ==
    LET rootOf == [source |-> objs[objs[id].root].source, missing |-> objs[objs[id].root].missing]
    IN  IF objs[id].k = "Configuration" THEN
            [k |-> "Configuration", source |-> objs[id].source, missing |-> objs[id].missing,
             root |-> rootOf]
        ELSE [k |-> "ConfigurationSequence", source |-> objs[id].source, root |-> rootOf]

\* Configuration.__init__: self._root = self (line 95)
NewRootObject(objs, value) ==
    Append(objs, [k |-> "Configuration", source |-> value.source, missing |-> value.missing,
                  root |-> Len(objs) + 1, parent |-> 0, restored |-> FALSE])

\* the NotConfigured sentinel (lines 299-315): one namespace object made
\* when the module is loaded, empty, of the silent policy, its own _root
SentinelId == 1

SentinelObject ==
    [k |-> "Configuration", source |-> <<>>, missing |-> NotConfigured,
     root |-> SentinelId, parent |-> 0, restored |-> FALSE]

\* the object a lookup handed out: the sentinel, the view just made, or 0
\* for a value that is no namespace and no sequence view
Handed(objs, found) ==
    IF found.exc # NoExc THEN 0
    ELSE IF found.val = NotConfigured THEN SentinelId
    ELSE IF found.val.k \in {"Configuration", "ConfigurationSequence"} THEN Len(objs) + 1
    ELSE 0

\* a view whose _root is the object that makes it
ViewRootMaker(objs, maker) == maker

\* namespace._root = self._root (line 119) and ConfigurationSequence(value,
\* self._root) (line 199): the _root of a view made by the object maker
ViewRoot(objs, maker) == objs[maker].root

\* the object that makes the view self hands out for the tree value reached:
\* a namespace wraps a mapping or a list itself (lines 196, 199) and has its
\* _root look up a reference (line 133); a sequence view has its _root wrap a
\* mapping (line 346), makes a view of a list itself (line 349) and has its
\* _root resolve a str (line 352), which has its own _root look it up
Maker(objs, self, reached) ==
    IF objs[self].k = "Configuration" THEN
        IF reached.k = "str" THEN objs[self].root ELSE self
    ELSE IF reached.k = "dict" THEN objs[self].root
    ELSE IF reached.k = "list" THEN self
    ELSE objs[objs[self].root].root

\* the table after a lookup on self reached the tree value reached and
\* handed out found: a namespace or sequence view is a new object
WithView(objs, self, reached, found) ==
    IF found.exc # NoExc \/ found.val.k \notin {"Configuration", "ConfigurationSequence"} THEN objs
    ELSE Append(objs, [k |-> found.val.k, source |-> found.val.source,
                       missing |-> IF found.val.k = "Configuration" THEN found.val.missing ELSE PyNone,
                       root |-> ViewRoot(objs, Maker(objs, self, reached)),
                       parent |-> self, restored |-> FALSE])

\* Configuration.__getstate__: the _missing entry of the state
__getstate__(missing) ==
    IF missing = NotConfigured THEN MissingSILENT
    ELSE IF missing = NoDefault THEN MissingERROR
    ELSE missing

\* Configuration.__setstate__: the _missing attribute restored
__setstate__(missing) ==
    IF missing.k = "Missing" THEN
        IF missing = MissingSILENT THEN NotConfigured ELSE NoDefault
    ELSE missing

\* the objects pickle reaches from id through _root, each once
RECURSIVE Pickled(_, _, _)
Pickled(objs, id, seen) ==
    IF id \in seen THEN <<>> ELSE <<id>> \o Pickled(objs, objs[id].root, seen \cup {id})

\* pickle.loads(pickle.dumps(obj)) for the namespace id: a copy of every
\* object reached, made from its state, the pointers between the copies as
\* between the originals; the copy of id is the object Len(objs) + 1
Restored(objs, id) ==
    LET reached == Pickled(objs, id, {})
        CopyOf(old) == Len(objs) + CHOOSE n \in 1..Len(reached) : reached[n] = old
    IN  objs \o [n \in 1..Len(reached) |->
                    [objs[reached[n]] EXCEPT
                        !.missing = __setstate__(__getstate__(@)),
                        !.root = CopyOf(@),
                        !.parent = 0,
                        !.restored = TRUE]]

\* an assignment that is carried out whatever the name: a public name is
\* stored as a key of the tree
SetAttrAny(objs, self, name, value) ==
    [objs |-> IF name[1] = "_" THEN [objs EXCEPT ![self].missing = value]
              ELSE [objs EXCEPT ![self].source = SetItem(@, name, value)],
     out |-> Returned(PyNone)]

\* Configuration.__setattr__ (lines 234-247): a name that does not start with
\* an underscore raises AttributeError; any other name is set on the object,
\* here _missing
__setattr__(objs, self, name, value) ==
    IF name[1] # "_" THEN
        [objs |-> objs, out |-> Raised("AttributeError", "assignment not supported", name, <<>>)]
    ELSE [objs |-> [objs EXCEPT ![self].missing = value], out |-> Returned(PyNone)]

-----------------------------------------------------------------------------
(* bounded inputs *)

MaxLeaf == 2        \* number of distinct int leaves
MaxSources == 2     \* number of positional sources handed to the constructor
MaxChain == 3       \* number of attribute accesses in a chain like config.a.b.c
MaxObjects == 5     \* number of objects in the table of a behaviour, the sentinel included

Digits == <<"1", "2", "3", "4", "5", "6", "7", "8", "9">>
Leaves == {PyInt(<<Digits[i]>>) : i \in 1..MaxLeaf}

Ka == <<"a">>
Kb == <<"b">>
Kk == <<"k">>
Kab == <<"a", ".", "b">>
Kaba == <<"a", ".", "b", ".", "a">>

\* dicts of at most two items with keys from keys and values from values
Dicts(keys, values) ==
    {<<>>} \cup {<< <<key, value>> >> : key \in keys, value \in values}
           \cup {<< <<k1, v1>>, <<k2, v2>> >> :
                    <<k1, k2>> \in {kk \in keys \X keys : kk[1] # kk[2]}, <<v1, v2>> \in values \X values}

\* arguments of _split_keys: plain and dotted keys, leaves and nested dicts
\* that have dotted keys of their own
RawKeys == {Ka, Kb, Kab, Kaba}
NestedRaw == {<<>>} \cup {<< <<key, value>> >> : key \in RawKeys, value \in Leaves}
RawMappings == Dicts(RawKeys, Leaves \cup {PyDict(d) : d \in NestedRaw})

\* operands of _merge: nested dicts without dotted keys
NestedPlain == {<<>>} \cup {<< <<key, value>> >> : key \in {Ka, Kb}, value \in Leaves}
PlainMappings == Dicts({Ka, Kb}, Leaves \cup {PyDict(d) : d \in NestedPlain})

\* constructor sources: a, b and a.b each absent or present
Absent == [k |-> "absent"]
OptItem(key, value) == IF value = Absent THEN <<>> ELSE << <<key, value>> >>
BuildSources ==
    {PyDict(OptItem(Ka, va) \o OptItem(Kb, vb) \o OptItem(Kab, vab)) :
        va \in {Absent} \cup Leaves \cup {PyDict(<< <<Kb, leaf>> >>) : leaf \in Leaves},
        vb \in {Absent, PyInt(<<"1">>)},
        vab \in {Absent} \cup Leaves}

-----------------------------------------------------------------------------
(* the state machine *)

Init ==
    /\ phase = "start"
    /\ root = PyNone
    /\ op = [name |-> "none"]
    /\ ret = Returned(PyNone)
    /\ heap = <<>>

\* a call of _split_keys(mapping)
SplitKeys ==
    /\ phase = "start"
    /\ \E mapping \in RawMappings :
        /\ op' = [name |-> "_split_keys", mapping |-> mapping, again |-> FALSE, first |-> mapping]
        /\ ret' = _split_keys(mapping, ".", <<>>, 1)
    /\ phase' = "util"
    /\ UNCHANGED <<root, heap>>

\* a call of _split_keys on the mapping the previous call returned
SplitAgain ==
    /\ phase = "util"
    /\ op.name = "_split_keys" /\ ~op.again /\ ret.exc = NoExc
    /\ op' = [name |-> "_split_keys", mapping |-> ret.result, again |-> TRUE, first |-> op.mapping]
    /\ ret' = _split_keys(ret.result, ".", <<>>, 1)
    /\ UNCHANGED <<phase, root, heap>>

\* a call of list(_merge(left, right, conflict=conflict))
Merge ==
    /\ phase = "start"
    /\ \E left \in PlainMappings, right \in PlainMappings, conflict \in {"error", "overwrite"} :
        /\ op' = [name |-> "_merge", left |-> left, right |-> right, conflict |-> conflict]
        /\ ret' = _merge(left, right, ".", <<>>, conflict, 1)
    /\ phase' = "util"
    /\ UNCHANGED <<root, heap>>

\* Configuration(*srcs, missing=missing)
ConstructFrom(srcs, missing) ==
    /\ phase = "start"
    /\ op' = [name |-> "Configuration", sources |-> srcs, missing |-> missing]
    /\ ret' = Configuration(srcs, missing)
    /\ root' = ret'.val
    /\ UNCHANGED heap
    /\ phase' = IF ret'.exc = NoExc THEN "ready" ELSE "failed"

\* Configuration(*srcs) for at most MaxSources sources
Build ==
    /\ phase = "start"
    /\ \E n \in 0..MaxSources :
        \E srcs \in [1..n -> BuildSources] : ConstructFrom(srcs, MissingSILENT)

\* values that are or hold wrappers: a namespace, a sequence view, and plain
\* mappings and lists that hold one of them or each other
WrappedValues ==
    LET WithHolders(holders, wrappers, rootOf) ==
            holders \cup {PyList(<<PyInt(<<"1">>)>>), PyDict(<< <<Kb, PyInt(<<"1">>)>> >>)}
                    \cup {PyList(<<h>>) : h \in holders} \cup {PyDict(<< <<Kb, h>> >>) : h \in holders}
                    \cup {ConfigurationSequence(PyList(<<PyDict(<< <<Kb, w>> >>)>>), rootOf) : w \in wrappers}
        WithWrappers(wrappers, rootOf) ==
            WithHolders(wrappers \cup {PyList(<<w>>) : w \in wrappers}
                                 \cup {PyDict(<< <<Kb, w>> >>) : w \in wrappers},
                        wrappers, rootOf)
        WithInner(inner) ==
            WithWrappers({inner, ConfigurationSequence(PyList(<<PyDict(<< <<Kk, PyInt(<<"1">>)>> >>)>>),
                                                       inner.root)},
                         inner.root)
    IN  WithInner(Configuration(<<PyDict(<< <<Kk, PyInt(<<"1">>)>> >>)>>, MissingSILENT).val)

\* Configuration(first, second) where first is a namespace, or a mapping that
\* holds a wrapped value at a or at the dotted key a.b, and second a plain
\* mapping
ConstructWrapped ==
    /\ phase = "start"
    /\ \E value \in WrappedValues, key \in {Ka, Kab}, other \in {<<>>, << <<Kk, PyInt(<<"2">>)>> >>} :
        LET first == IF value.k = "Configuration" /\ key = Kab THEN value
                     ELSE PyDict(<< <<key, value>> >>)
        IN  /\ op' = [name |-> "Configuration of wrapped", sources |-> <<first, PyDict(other)>>,
                      missing |-> MissingSILENT]
            /\ ret' = Configuration(op'.sources, MissingSILENT)
            /\ root' = ret'.val
    /\ phase' = "wrapped"
    /\ UNCHANGED heap

NextBuild == SplitKeys \/ SplitAgain \/ Merge \/ Build \/ ConstructWrapped

SpecBuild == Init /\ [][NextBuild]_vars

-----------------------------------------------------------------------------
(* lookups on a constructed Configuration *)

Kr == <<"r">>
Kx == <<"x">>
Kl == <<"l">>
Kns == <<"n", "s">>
Kak == <<"a", ".", "k">>
Kakz == <<"a", ".", "k", ".", "z">>
Kxy == <<"x", ".", "y">>
Krk == <<"r", ".", "k">>
Klk == <<"l", ".", "k">>
Knsr == <<"n", "s", ".", "r">>
Knsx == <<"n", "s", ".", "x">>

\* string values: references ${a.k}, ${x} and ${a}, a template around a
\* reference, and a string without a reference
RefAK == <<"$", "{", "a", ".", "k", "}">>
RefX == <<"$", "{", "x", "}">>
RefA == <<"$", "{", "a", "}">>
TemplateAK == <<"p", "$", "{", "a", ".", "k", "}">>
NoRef == <<"s">>
Texts == {RefAK, RefX, RefA, TemplateAK, NoRef}

\* more string values: references ${b} and ${r}, templates with one token, two
\* tokens, the same token twice
RefB == <<"$", "{", "b", "}">>
RefR == <<"$", "{", "r", "}">>
Around == <<"x", "$", "{", "a", "}", "y">>
TwoRefs == <<"$", "{", "a", "}", "$", "{", "b", "}">>
SameTwice == <<"$", "{", "a", "}", "-", "$", "{", "a", "}">>

\* sources {a: .., b: .., r: ..} whose values refer to each other
ARefValues ==
    {PyInt(<<"1">>), PyBool(<<"T", "r", "u", "e">>), PyStr(NoRef), PyStr(RefB), PyStr(RefA),
     PyList(<<PyInt(<<"1">>)>>), PyDict(<< <<Kk, PyInt(<<"1">>)>> >>)}
BRefValues ==
    {Absent, PyInt(<<"2">>), PyStr(NoRef), PyStr(RefA), PyStr(RefR), PyDict(<< <<Kk, PyInt(<<"2">>)>> >>)}
RRefValues == {PyStr(RefA), PyStr(RefB), PyStr(Around), PyStr(TwoRefs), PyStr(SameTwice), PyStr(RefAK)}
RefSources ==
    {PyDict(<< <<Ka, va>> >> \o OptItem(Kb, vb) \o << <<Kr, vr>> >>) :
        va \in ARefValues, vb \in BRefValues, vr \in RRefValues}

\* what the first source configures at a: nothing, an int, a str, a list of
\* an int or of a mapping, a mapping with an int, a reference or a mapping at k
AValues ==
    {Absent, PyInt(<<"1">>), PyStr(NoRef), PyList(<<PyInt(<<"1">>)>>),
     PyList(<<PyDict(<< <<Kk, PyInt(<<"1">>)>> >>)>>),
     PyDict(<< <<Kk, PyInt(<<"1">>)>> >>), PyDict(<< <<Kk, PyStr(RefX)>> >>),
     PyDict(<< <<Kk, PyDict(<< <<Kk, PyInt(<<"1">>)>> >>)>> >>)}

\* the second source holds one text, at r, at the dotted key ns.r or in a list at l
Holders(text) ==
    {PyDict(<< <<Kr, PyStr(text)>> >>), PyDict(<< <<Knsr, PyStr(text)>> >>),
     PyDict(<< <<Kl, PyList(<<PyStr(text)>>)>> >>)}

\* values for the constructor's missing argument
MissingPolicies == {MissingSILENT, MissingERROR, PyInt(<<"0">>)}

\* values passed as get's default argument
Defaults == {PyNone, PyInt(<<"5">>), NoDefault}

\* the paths looked up
Paths == {Ka, Kb, Kak, Kakz, Kx, Kxy, Kr, Krk, Kl, Klk, Kns, Knsr, Knsx}

\* the names used for attribute access
Attrs == {Ka, Kb, Kk, Kx, Kr, Kl, Kns}

\* the namespaces to access: the root itself and what get returns for its
\* keys that hold a mapping
Selves(obj) ==
    {obj} \cup {get(obj, obj.source[i][1], GetDefault, "None", TRUE).val :
                    i \in {i \in 1..Len(obj.source) : IsMapping(obj.source[i][2])}}

\* the sequences get returns for the root's keys that hold a list
Sequences(obj) ==
    {get(obj, obj.source[i][1], GetDefault, "None", TRUE).val :
        i \in {i \in 1..Len(obj.source) : obj.source[i][2].k = "list"}}

\* Configuration(first, second, missing=missing)
Construct ==
    /\ phase = "start"
    /\ \E va \in AValues, text \in Texts, missing \in MissingPolicies :
        \E holder \in Holders(text) :
            ConstructFrom(<<PyDict(OptItem(Ka, va)), holder>>, missing)

\* Configuration(source, missing=missing) for a source with references
ConstructRefs ==
    /\ phase = "start"
    /\ \E source \in RefSources, missing \in MissingPolicies : ConstructFrom(<<source>>, missing)

\* self.get(path), self.get(path, default) and
\* self.get(path, default, resolve_references=False)
Get ==
    /\ phase = "ready"
    /\ \E self \in Selves(root), path \in Paths, given \in BOOLEAN, d \in Defaults,
          resolve_references \in BOOLEAN :
        LET default == IF given THEN d ELSE GetDefault IN
        /\ ~given => d = PyNone
        /\ op' = [name |-> "get", self |-> self, path |-> path, given |-> given,
                  default |-> default, resolve_references |-> resolve_references]
        /\ ret' = get(self, path, default, "None", resolve_references)
    /\ phase' = "done"
    /\ UNCHANGED <<root, heap>>

\* self.get(path, as_type=f) and self.get(path, default, as_type=f) for a
\* callable f that returns its argument or raises an exception of its own
GetAs ==
    /\ phase = "ready"
    /\ \E self \in Selves(root), path \in Paths, d \in Defaults,
          as_type \in {"raw", "ValueError", "IndexError", "KeyError", "NotConfiguredError",
                       "ConfiguredReferenceError"} :
        /\ op' = [name |-> "get as_type", self |-> self, path |-> path, default |-> d,
                  as_type |-> as_type]
        /\ ret' = get(self, path, d, as_type, TRUE)
    /\ phase' = "done"
    /\ UNCHANGED <<root, heap>>

\* self[item]
GetItem ==
    /\ phase = "ready"
    /\ \E self \in Selves(root), item \in Paths :
        /\ op' = [name |-> "__getitem__", self |-> self, path |-> item]
        /\ ret' = __getitem__(self, item)
    /\ phase' = "done"
    /\ UNCHANGED <<root, heap>>

\* self.attr
GetAttr ==
    /\ phase = "ready"
    /\ \E self \in Selves(root), attr \in Attrs :
        /\ op' = [name |-> "__getattr__", self |-> self, path |-> attr, depth |-> 1,
                  start |-> <<self, attr>>, via |-> "get"]
        /\ ret' = __getattr__(self, attr)
    /\ phase' = "done"
    /\ UNCHANGED <<root, heap>>

\* value.attr for the namespace value the previous access returned: op.via
\* names that access, op.depth counts the attribute accesses in a row and
\* op.start is the first of them
GetAttrNext ==
    /\ phase = "done"
    /\ op.name = "__getattr__" => op.depth < MaxChain
    /\ ret.exc = NoExc /\ ret.val.k \in {"Configuration", "NotConfigured"}
    /\ \E attr \in Attrs :
        LET self == Deref(ret.val)
            chained == op.name = "__getattr__"
        IN  /\ op' = [name |-> "__getattr__", self |-> self, path |-> attr,
                      depth |-> IF chained THEN op.depth + 1 ELSE 1,
                      start |-> IF chained THEN op.start ELSE <<self, attr>>,
                      via |-> op.name]
            /\ ret' = __getattr__(self, attr)
    /\ UNCHANGED <<phase, root, heap>>

\* sequence[item] on a sequence obtained from the root
SeqGetItem ==
    /\ phase = "ready"
    /\ \E self \in Sequences(root), item \in {0, 1, -1} :
        /\ op' = [name |-> "ConfigurationSequence.__getitem__", self |-> self, item |-> item]
        /\ ret' = SequenceGetItem(self, item)
    /\ phase' = "done"
    /\ UNCHANGED <<root, heap>>

\* trees to compare a namespace with, besides its own
OtherTrees ==
    {PyDict(<<>>),
     PyDict(<< <<Kk, PyInt(<<"1">>)>> >>),
     PyDict(<< <<Ka, PyInt(<<"1">>)>>, <<Kr, PyInt(<<"1">>)>> >>),
     PyDict(<< <<Kr, PyInt(<<"1">>)>>, <<Ka, PyInt(<<"1">>)>> >>),
     PyDict(<< <<Ka, PyDict(<< <<Kk, PyInt(<<"1">>)>> >>)>>, <<Kr, PyStr(NoRef)>> >>)}

\* the mappings self is compared with: plain mappings and namespaces
\* constructed from them under each policy, over self's tree and other trees
Others(self) ==
    LET trees == {unwrap(self)} \cup OtherTrees
    IN  trees \cup {Configuration(<<tree>>, missing).val :
                        tree \in trees, missing \in MissingPolicies}

\* self == other and other == self
Eq ==
    /\ phase = "ready"
    /\ \E self \in Selves(root) : \E other \in Others(self), swap \in BOOLEAN :
        LET left == IF swap THEN other ELSE self
            right == IF swap THEN self ELSE other
        IN  /\ op' = [name |-> "__eq__", left |-> left, right |-> right]
            /\ ret' = ValueEq(left, right)
    /\ phase' = "done"
    /\ UNCHANGED <<root, heap>>

\* the plain list of the values self's elements resolve to
Resolved(self) ==
    PyList([i \in 1..Len(self.source) |-> unwrap(Elements(self)[i].val)])

\* the sequences self is compared with, each with whether it is self: self,
\* another view of the same list, the plain list of the resolved values,
\* other plain lists
OtherSequences(self) ==
    {<<self, TRUE>>, <<ConfigurationSequence(PyList(self.source), self.root), FALSE>>,
     <<Resolved(self), FALSE>>, <<PyList(<<>>), FALSE>>,
     <<PyList(<<PyInt(<<"2">>)>>), FALSE>>}

\* self == other and other == self for a sequence view self
SeqEq ==
    /\ phase = "ready"
    /\ \E self \in Sequences(root) : \E other \in OtherSequences(self), swap \in BOOLEAN :
        LET left == IF swap THEN other[1] ELSE self
            right == IF swap THEN self ELSE other[1]
        IN  /\ op' = [name |-> "ConfigurationSequence.__eq__", left |-> left, right |-> right,
                      identical |-> other[2]]
            /\ ret' = SequenceEq(left, right, other[2])
    /\ phase' = "done"
    /\ UNCHANGED <<root, heap>>

\* self.get(path).get(rest) where path leads to a mapping of the tree
GetGet ==
    /\ phase = "ready"
    /\ \E self \in Selves(root), path \in {Ka, Kns, Kak},
          rest \in {Kk, Kr, Kx, Kk \o <<".">> \o Kk, Kk \o <<".">> \o <<"z">>} :
        LET reached == Walk(PyDict(self.source), Split(path, "."), <<>>)
            first == get(self, path, GetDefault, "None", TRUE)
        IN  /\ reached.exc = NoExc /\ IsMapping(reached.value)
            /\ op' = [name |-> "get.get", self |-> self, path |-> path, rest |-> rest]
            /\ ret' = get(first.val, rest, GetDefault, "None", TRUE)
    /\ phase' = "done"
    /\ UNCHANGED <<root, heap>>

Next ==
    \/ Construct \/ ConstructRefs \/ Get \/ GetAs \/ GetItem \/ GetAttr \/ GetAttrNext \/ SeqGetItem
    \/ Eq \/ SeqEq \/ GetGet

Spec == Init /\ [][Next]_vars

-----------------------------------------------------------------------------
(* unions of namespaces and plain mappings *)

\* the trees of the operands: dotted and nested spellings of a.k, a.k.b and
\* a.z, values that are equal (1 and True) and that differ
UnionTrees ==
    {PyDict(<<>>),
     PyDict(<< <<Ka, PyDict(<< <<Kk, PyInt(<<"1">>)>> >>)>>, <<Kb, PyInt(<<"1">>)>> >>),
     PyDict(<< <<Kak, PyInt(<<"2">>)>> >>),
     PyDict(<< <<Ka, PyDict(<< <<<<"z">>, PyInt(<<"2">>)>> >>)>> >>),
     PyDict(<< <<Ka, PyDict(<< <<Kk, PyDict(<< <<Kb, PyInt(<<"1">>)>> >>)>> >>)>> >>),
     PyDict(<< <<Kak \o <<".", "b">>, PyInt(<<"2">>)>> >>),
     PyDict(<< <<Kb, PyBool(<<"T", "r", "u", "e">>)>> >>)}

\* an operand is a plain mapping or a namespace constructed from one with a
\* missing argument
Plain == [k |-> "plain"]
Forms == {Plain, MissingSILENT, MissingERROR, PyInt(<<"0">>), PyList(<<>>)}

\* the operand of the given form over tree, made on heap h
Operand(h, tree, form) ==
    LET display == Display(h, tree)
    IN  IF form = Plain THEN display
        ELSE HeapConfiguration(display.h, <<display.v>>, form)

\* a = <tree> or Configuration(<tree>, missing=..), and b likewise
MakeOperands ==
    /\ phase = "start"
    /\ \E ta \in UnionTrees, tb \in UnionTrees, fa \in Forms, fb \in Forms :
        LET a == Operand(<<>>, ta, fa)
            b == Operand(a.h, tb, fb)
        IN  /\ op' = [name |-> "operands", a |-> a.v, b |-> b.v]
            /\ heap' = b.h
    /\ ret' = Returned(PyNone)
    /\ phase' = "operands"
    /\ UNCHANGED root

\* the outcome of a call on the heap as the value of ret
HeapOutcome(done) ==
    IF done.exc = NoExc THEN Returned(done.v) ELSE Raised(done.exc, "", <<>>, <<>>)

\* a | b where a is a namespace
Or ==
    /\ phase = "operands"
    /\ op.a.k = "Configuration"
    /\ LET done == BinaryOr(heap, op.a, op.b)
       IN  /\ op' = [name |-> "__or__", a |-> op.a, b |-> op.b, given |-> FALSE,
                     missing |-> PyNone, before |-> heap, original |-> heap]
           /\ heap' = done.h
           /\ ret' = HeapOutcome(done)
    /\ phase' = "merged"
    /\ UNCHANGED root

\* a | b where a is a plain mapping and b a namespace
Ror ==
    /\ phase = "operands"
    /\ op.a.k # "Configuration" /\ op.b.k = "Configuration"
    /\ LET done == BinaryOr(heap, op.a, op.b)
       IN  /\ op' = [name |-> "__ror__", a |-> op.a, b |-> op.b, given |-> FALSE,
                     missing |-> PyNone, before |-> heap, original |-> heap]
           /\ heap' = done.h
           /\ ret' = HeapOutcome(done)
    /\ phase' = "merged"
    /\ UNCHANGED root

\* a |= b where a is a namespace: the class has no __ior__, the statement is
\* a = a | b
IOr ==
    /\ phase = "operands"
    /\ op.a.k = "Configuration"
    /\ LET done == BinaryOr(heap, op.a, op.b)
       IN  /\ op' = [name |-> "__ior__", a |-> op.a, b |-> op.b, given |-> FALSE,
                     missing |-> PyNone, before |-> heap, original |-> heap]
           /\ heap' = done.h
           /\ ret' = HeapOutcome(done)
    /\ phase' = "merged"
    /\ UNCHANGED root

\* merge(a, b) and merge(a, b, missing=missing)
MergeCall ==
    /\ phase = "operands"
    /\ \E given \in BOOLEAN,
          argument \in {PyNone, MissingSILENT, MissingERROR, PyInt(<<"5">>), PyList(<<>>)} :
        LET missing == IF given THEN argument ELSE PyNone
            done == merge(heap, <<op.a, op.b>>, missing)
        IN  /\ ~given => argument = PyNone
            /\ op' = [name |-> "merge", a |-> op.a, b |-> op.b, given |-> given,
                      missing |-> missing, before |-> heap, original |-> heap]
            /\ heap' = done.h
            /\ ret' = HeapOutcome(done)
    /\ phase' = "merged"
    /\ UNCHANGED root

\* result | c and c | result for the namespace a union has returned
OrAgain ==
    /\ phase = "merged"
    /\ ret.exc = NoExc
    /\ \E swap \in BOOLEAN,
          tree \in {PyDict(<< <<Kak, PyInt(<<"3">>)>> >>),
                    PyDict(<< <<Ka, PyDict(<< <<Kk, PyDict(<< <<Kb, PyInt(<<"3">>)>> >>)>> >>)>> >>),
                    PyDict(<< <<Kb, PyInt(<<"3">>)>> >>)} :
        LET c == Display(heap, tree)
            left == IF swap THEN c.v ELSE ret.val
            right == IF swap THEN ret.val ELSE c.v
            done == BinaryOr(c.h, left, right)
        IN  /\ op' = [name |-> IF swap THEN "__ror__" ELSE "__or__", a |-> left, b |-> right,
                      given |-> FALSE, missing |-> PyNone, before |-> c.h,
                      original |-> op.original]
            /\ heap' = done.h
            /\ ret' = HeapOutcome(done)
    /\ phase' = "again"
    /\ UNCHANGED root

\* NotConfigured | a, and a | NotConfigured when swap, for the operand a
SentinelOr ==
    /\ phase = "operands"
    /\ \E swap \in BOOLEAN :
        LET sentinel == Sentinel(heap)
            left == IF swap THEN op.a ELSE sentinel.v
            right == IF swap THEN sentinel.v ELSE op.a
            done == BinaryOr(sentinel.h, left, right)
        IN  /\ op' = [name |-> "sentinel", a |-> left, b |-> right, given |-> FALSE,
                      missing |-> PyNone, before |-> sentinel.h, original |-> heap,
                      other |-> op.a]
            /\ heap' = done.h
            /\ ret' = HeapOutcome(done)
    /\ phase' = "merged"
    /\ UNCHANGED root

-----------------------------------------------------------------------------
(* lookups and pickling on objects with identity *)

\* the root of this section: a namespace in a namespace, references to
\* namespaces and a list that holds a mapping, a reference and a list
ConstructObject ==
    /\ phase = "start"
    /\ \E missing \in MissingPolicies :
        LET made == Configuration(
                        <<PyDict(<< <<Ka, PyDict(<< <<Kk, PyDict(<< <<Kk, PyInt(<<"1">>)>> >>)>>,
                                                   <<Kr, PyStr(RefAK)>> >>)>>,
                                    <<Kl, PyList(<<PyDict(<< <<Kk, PyInt(<<"1">>)>> >>), PyStr(RefA),
                                                   PyList(<<PyDict(<< <<Kk, PyInt(<<"1">>)>> >>)>>)>>)>>,
                                    <<Kr, PyStr(RefA)>> >>)>>, missing)
        IN  /\ op' = [name |-> "Configuration", missing |-> missing]
            /\ ret' = made
            /\ heap' = NewRootObject(<<SentinelObject>>, made.val)
    /\ root' = 2
    /\ phase' = "objects"

\* self.get(path) and self.path on a namespace object
LookupObject ==
    /\ phase = "objects"
    /\ Len(heap) < MaxObjects
    /\ \E self \in {id \in 1..Len(heap) : heap[id].k = "Configuration"},
          path \in {Ka, Kk, Kr, Kl},
          name \in {"get", "__getattr__"} :
        LET object == ObjectAt(heap, self)
            found == IF name = "get" THEN get(object, path, GetDefault, "None", TRUE)
                     ELSE __getattr__(object, path)
            reached == Walk(PyDict(object.source), Split(path, "."), <<>>).value
        IN  /\ op' = [name |-> name, self |-> self, path |-> path, made |-> Handed(heap, found)]
            /\ ret' = found
            /\ heap' = WithView(heap, self, reached, found)
    /\ UNCHANGED <<phase, root>>

\* self[item] on a sequence view object
ElementObject ==
    /\ phase = "objects"
    /\ Len(heap) < MaxObjects
    /\ \E self \in {id \in 1..Len(heap) : heap[id].k = "ConfigurationSequence"} :
        \E item \in 0..(Len(heap[self].source) - 1) :
            LET found == SequenceGetItem(ObjectAt(heap, self), item)
            IN  /\ op' = [name |-> "ConfigurationSequence.__getitem__", self |-> self, item |-> item,
                           made |-> Handed(heap, found)]
                /\ ret' = found
                /\ heap' = WithView(heap, self, heap[self].source[item + 1], found)
    /\ UNCHANGED <<phase, root>>

\* pickle.loads(pickle.dumps(self)) for a namespace object other than the
\* sentinel, which pickle refuses
PickleObject ==
    /\ phase = "objects"
    /\ Len(heap) + 2 <= MaxObjects
    /\ \E self \in {id \in 1..Len(heap) : heap[id].k = "Configuration" /\ id # SentinelId} :
        /\ op' = [name |-> "pickle", self |-> self, made |-> Len(heap) + 1]
        /\ heap' = Restored(heap, self)
        /\ ret' = Returned(ObjectAt(heap', Len(heap) + 1))
    /\ UNCHANGED <<phase, root>>

\* the names assigned to: the keys of the trees, each configured on some
\* namespace and unconfigured on another, and a private attribute
K_missing == <<"_", "m", "i", "s", "s", "i", "n", "g">>

\* self.name = value on a namespace object, the sentinel included; the
\* private attribute is assigned on the constructed root only
SetAttrObject ==
    /\ phase = "objects"
    /\ \E self \in {id \in 1..Len(heap) : heap[id].k = "Configuration"},
          name \in {Ka, Kk, K_missing} :
        LET set == __setattr__(heap, self, name, PyInt(<<"0">>))
        IN  /\ name = K_missing => self = root
            /\ op' = [name |-> "__setattr__", self |-> self, attr |-> name]
            /\ ret' = set.out
            /\ heap' = set.objs
    /\ UNCHANGED <<phase, root>>

NextObjects == ConstructObject \/ LookupObject \/ ElementObject \/ PickleObject \/ SetAttrObject

SpecObjects == Init /\ [][NextObjects]_vars

\* the trees of the sources of one construction: a mapping the second source
\* merges into, a list that holds a mapping, at the top and in a mapping, and
\* a dotted key
SourceTrees ==
    {PyDict(<< <<Ka, PyDict(<< <<Kk, PyInt(<<"1">>)>> >>)>> >>),
     PyDict(<< <<Ka, PyDict(<< <<<<"z">>, PyInt(<<"2">>)>> >>)>> >>),
     PyDict(<< <<Kak, PyInt(<<"2">>)>> >>),
     PyDict(<< <<Kl, PyList(<<PyDict(<< <<Kk, PyInt(<<"1">>)>> >>)>>)>> >>),
     PyDict(<< <<Ka, PyDict(<< <<Kl, PyList(<<PyList(<<PyDict(<<>>)>>)>>)>> >>)>> >>)}

\* Configuration(a, b) for sources a and b that are plain mappings or
\* namespaces
ConstructOver ==
    /\ phase = "start"
    /\ \E ta \in SourceTrees, tb \in SourceTrees, fa \in {Plain, MissingSILENT}, fb \in {Plain, MissingSILENT} :
        LET a == Operand(<<>>, ta, fa)
            b == Operand(a.h, tb, fb)
            done == HeapConfiguration(b.h, <<a.v, b.v>>, MissingSILENT)
        IN  /\ op' = [name |-> "Configuration", a |-> a.v, b |-> b.v, before |-> b.h]
            /\ heap' = done.h
            /\ ret' = HeapOutcome(done)
    /\ phase' = "constructed"
    /\ UNCHANGED root

\* the mappings merged: nested ones that overlap at a and at a.k, equal and
\* different leaves
MergeTrees ==
    {PyDict(<<>>),
     PyDict(<< <<Ka, PyDict(<< <<Kk, PyInt(<<"1">>)>> >>)>> >>),
     PyDict(<< <<Ka, PyDict(<< <<Kk, PyInt(<<"2">>)>>, <<<<"z">>, PyInt(<<"2">>)>> >>)>> >>),
     PyDict(<< <<Ka, PyDict(<< <<Kk, PyDict(<< <<Kb, PyInt(<<"1">>)>> >>)>> >>)>> >>),
     PyDict(<< <<Ka, PyDict(<< <<Kk, PyDict(<< <<<<"z">>, PyInt(<<"2">>)>> >>)>> >>)>>, <<Kb, PyInt(<<"1">>)>> >>)}

\* list(_merge(left, right, conflict=conflict)) for two mappings just made
MergeInto ==
    /\ phase = "start"
    /\ \E tl \in MergeTrees, tr \in MergeTrees, conflict \in {"error", "overwrite"} :
        LET left == Display(<<>>, tl)
            right == Display(left.h, tr)
            done == HeapMerge(right.h, left.v.id, right.v.id, conflict, 1)
        IN  /\ op' = [name |-> "_merge", left |-> left.v, right |-> right.v, conflict |-> conflict,
                      before |-> right.h, original |-> right.h, first |-> right.v]
            /\ heap' = done.h
            /\ ret' = HeapOutcome(done)
    /\ phase' = "merging"
    /\ UNCHANGED root

\* list(_merge(left, right, conflict=conflict)) for the left of the merge
\* before and another mapping just made
MergeMore ==
    /\ phase = "merging"
    /\ ret.exc = NoExc
    /\ \E tr \in MergeTrees :
        LET right == Display(heap, tr)
            done == HeapMerge(right.h, op.left.id, right.v.id, op.conflict, 1)
        IN  /\ op' = [op EXCEPT !.right = right.v, !.before = right.h]
            /\ heap' = done.h
            /\ ret' = HeapOutcome(done)
    /\ phase' = "merged more"
    /\ UNCHANGED root

\* string values with a token inside a token, whose inner value builds the
\* outer path, and a token whose path leads through an int
RefInA == <<"$", "{", "a", ".", "$", "{", "b", "}", "}">>
RefIn == <<"$", "{", "$", "{", "b", "}", "}">>
RefAKZ == <<"$", "{", "a", ".", "k", ".", "z", "}">>

\* trees {a: .., b: .., r: ..} whose strings refer to each other
ResolveTrees ==
    {PyDict(<< <<Ka, va>>, <<Kb, vb>>, <<Kr, vr>> >>) :
        va \in {PyInt(<<"1">>), PyDict(<< <<Kk, PyInt(<<"1">>)>> >>), PyStr(RefB), PyStr(RefR)},
        vb \in {PyStr(Kk), PyStr(Ka), PyStr(Kr), PyStr(RefA), PyStr(RefR)},
        vr \in {PyStr(RefA), PyStr(RefInA), PyStr(RefIn), PyStr(TwoRefs), PyStr(RefAKZ), PyStr(RefX),
                PyStr(Around)}}

\* self._resolve(value) is entered for the str value at a key of a namespace
StartResolve ==
    /\ phase = "start"
    /\ \E tree \in ResolveTrees, key \in {Ka, Kb, Kr} :
        LET self == Configuration(<<tree>>, MissingSILENT).val
            value == Item(self.source, key)
        IN  /\ value.k = "str"
            /\ root' = self
            /\ op' = [name |-> "_resolve", self |-> self, path |-> key, value |-> value,
                      references |-> {}, passes |-> 0]
            /\ ret' = Returned(value)
    /\ phase' = "resolving"
    /\ UNCHANGED heap

\* one pass of the loop of _resolve, or its end
ResolveStep ==
    /\ phase = "resolving"
    /\ LET pass == ResolveIteration(op.self, ret.val, op.references)
       IN  /\ ret' = pass.out
           /\ op' = [op EXCEPT !.references = pass.references,
                               !.passes = IF pass.done THEN @ ELSE @ + 1]
           /\ phase' = IF pass.done THEN "resolved" ELSE "resolving"
    /\ UNCHANGED <<root, heap>>

NextResolve == StartResolve \/ ResolveStep

SpecResolve == Init /\ [][NextResolve]_vars

NextUnion ==
    \/ MakeOperands \/ Or \/ Ror \/ IOr \/ MergeCall \/ OrAgain \/ SentinelOr
    \/ ConstructOver \/ MergeInto \/ MergeMore

SpecUnion == Init /\ [][NextUnion]_vars

-----------------------------------------------------------------------------
(* vocabulary of the properties *)

DictLabel == [k |-> "dict"]

IsPrefix(q, p) == Len(q) <= Len(p) /\ SubSeq(p, 1, Len(q)) = q

\* the tree a mapping spells, whatever mix of dotted keys and nesting it is
\* written with: one <<path, label>> per node, path the sequence of steps
\* from the top, label the leaf value or DictLabel for a mapping
RECURSIVE Nodes(_, _)
Nodes(items, prefix) ==
    UNION {LET steps == prefix \o Split(items[i][1], ".")
               value == items[i][2]
           IN  {<<SubSeq(steps, 1, n), DictLabel>> : n \in (Len(prefix) + 1)..(Len(steps) - 1)}
               \cup (IF IsMapping(value) THEN {<<steps, DictLabel>>} \cup Nodes(value.d, steps)
                     ELSE {<<steps, value>>})
           : i \in 1..Len(items)}

Tree(value) == Nodes(value.d, <<>>)

\* the nodes at and below path
Under(nodes, path) == {n \in nodes : IsPrefix(path, n[1])}

HasPath(nodes, path) == \E n \in nodes : n[1] = path
HasLeaf(nodes, path) == \E n \in nodes : n[1] = path /\ n[2] # DictLabel

\* two different values are spelled for one path
Conflicting(nodes) == \E n1 \in nodes, n2 \in nodes : n1[1] = n2[1] /\ n1[2] # n2[2]

RECURSIVE NoDottedKeys(_)
NoDottedKeys(items) ==
    \A i \in 1..Len(items) :
        /\ Find(items[i][1], ".") = 0
        /\ IsMapping(items[i][2]) => NoDottedKeys(items[i][2].d)

\* the value a dict tree holds at a path of keys
RECURSIVE ValueAt(_, _)
ValueAt(items, path) ==
    IF Len(path) = 1 THEN Item(items, path[1])
    ELSE ValueAt(Item(items, path[1]).d, Tail(path))

\* the key paths at which left and right both hold a value, not both
\* mappings; Differ selects the unequal or the equal ones
RECURSIVE SharedPaths(_, _, _, _)
SharedPaths(left, right, prefix, differ) ==
    UNION {LET key == right[i][1] IN
           IF ~HasKey(left, key) THEN {}
           ELSE IF IsMapping(Item(left, key)) /\ IsMapping(right[i][2])
                THEN SharedPaths(Item(left, key).d, right[i][2].d, Append(prefix, key), differ)
           ELSE IF PyEq(Item(left, key), right[i][2]) # differ THEN {Append(prefix, key)}
           ELSE {}
           : i \in 1..Len(right)}

\* the last source of a constructor call that spells path
Spells(srcs, i, path) == Truthy(srcs[i]) /\ HasPath(Tree(unwrap(srcs[i])), path)
LastWith(srcs, path) ==
    CHOOSE j \in 1..Len(srcs) : Spells(srcs, j, path) /\ \A t \in (j + 1)..Len(srcs) : ~Spells(srcs, t, path)

AllPaths(srcs) == UNION {{n[1] : n \in Tree(unwrap(srcs[i]))} : i \in {i \in 1..Len(srcs) : Truthy(srcs[i])}}

Consistent(srcs) == \A i \in 1..Len(srcs) : Truthy(srcs[i]) => ~Conflicting(Tree(unwrap(srcs[i])))

-----------------------------------------------------------------------------
(* properties of construction, splitting and merging *)

\* C1 as stated: in a constructed tree every path that is a leaf in some
\* source holds the value of the last source that contains the path.
C1_LastSourceWinsEveryPath ==
    (op.name = "Configuration" /\ ret.exc = NoExc) =>
        \A path \in AllPaths(op.sources) :
            (\E i \in 1..Len(op.sources) : Truthy(op.sources[i]) /\ HasLeaf(Tree(unwrap(op.sources[i])), path)) =>
                Under(Tree(PyDict(root.source)), path)
                    = Under(Tree(unwrap(op.sources[LastWith(op.sources, path)])), path)

\* a later source holds a non-mapping value at a proper prefix of path
Shadowed(srcs, j, path) ==
    \E t \in (j + 1)..Len(srcs) : \E n \in 1..(Len(path) - 1) :
        Truthy(srcs[t]) /\ HasLeaf(Tree(unwrap(srcs[t])), SubSeq(path, 1, n))

\* C1 amended: construction from sources that split without conflict
\* succeeds, and every path at which the last source containing it holds a
\* leaf holds that leaf in the constructed tree, unless a later source holds a
\* non-mapping value at a proper prefix of the path.
C1_LastSourceWins ==
    (op.name = "Configuration" /\ Consistent(op.sources)) =>
        /\ ret.exc = NoExc
        /\ \A path \in AllPaths(op.sources) :
            LET j == LastWith(op.sources, path) IN
            (HasLeaf(Tree(unwrap(op.sources[j])), path) /\ ~Shadowed(op.sources, j, path)) =>
                Under(Tree(PyDict(root.source)), path) = Under(Tree(unwrap(op.sources[j])), path)

\* two sources give different leaves for a.b, the second one wins
C1_Witness ==
    /\ op.name = "Configuration" /\ ret.exc = NoExc /\ Len(op.sources) = 2
    /\ \E l1 \in Leaves, l2 \in Leaves :
        /\ l1 # l2
        /\ <<<<Ka, Kb>>, l1>> \in Tree(unwrap(op.sources[1]))
        /\ <<<<Ka, Kb>>, l2>> \in Tree(unwrap(op.sources[2]))
        /\ <<<<Ka, Kb>>, l2>> \in Tree(PyDict(root.source))

TopKeys(nodes) == {n[1][1] : n \in nodes}
IsMappingAt(srcs, i, key) == <<<<key>>, DictLabel>> \in Tree(unwrap(srcs[i]))

\* C2: when the last two sources that hold a top-level key hold a mapping
\* and a non-mapping there (either way round), the constructed tree holds
\* exactly the later source's value at the key, and the top-level keys of
\* the tree are those of all sources.
C2_ReplacedWholesale ==
    (op.name = "Configuration" /\ Consistent(op.sources)) =>
        /\ ret.exc = NoExc
        /\ TopKeys(Tree(PyDict(root.source))) = TopKeys(UNION {Tree(unwrap(op.sources[i])) : i \in 1..Len(op.sources)})
        /\ \A key \in TopKeys(Tree(PyDict(root.source))) :
            LET j == LastWith(op.sources, <<key>>) IN
            \A i \in 1..(j - 1) :
                (/\ Spells(op.sources, i, <<key>>)
                 /\ \A t \in (i + 1)..(j - 1) : ~Spells(op.sources, t, <<key>>)
                 /\ IsMappingAt(op.sources, i, key) # IsMappingAt(op.sources, j, key)) =>
                    Under(Tree(PyDict(root.source)), <<key>>) = Under(Tree(unwrap(op.sources[j])), <<key>>)

\* a.b from the first source is replaced by a scalar a of the second, b is kept
C2_Witness ==
    /\ op.name = "Configuration" /\ ret.exc = NoExc /\ Len(op.sources) = 2
    /\ HasPath(Tree(unwrap(op.sources[1])), <<Ka, Kb>>)
    /\ HasLeaf(Tree(unwrap(op.sources[2])), <<Ka>>)
    /\ ~HasPath(Tree(unwrap(op.sources[2])), <<Kb>>)
    /\ HasLeaf(Tree(PyDict(root.source)), <<Ka>>)
    /\ ~HasPath(Tree(PyDict(root.source)), <<Ka, Kb>>)
    /\ HasLeaf(Tree(PyDict(root.source)), <<Kb>>)

\* C3: _split_keys returns, for every mapping that spells no path twice with
\* different values, a mapping without separators in its keys at any depth
\* that holds exactly the tree the argument spells (each key split at every
\* separator, keys with a common prefix under one sub-mapping), so that the
\* result does not depend on the mix of dotted keys and nesting.
C3_SplitSpellsTree ==
    (op.name = "_split_keys" /\ ~Conflicting(Nodes(op.mapping, <<>>))) =>
        /\ ret.exc = NoExc
        /\ NoDottedKeys(ret.result)
        /\ Nodes(ret.result, <<>>) = Nodes(op.mapping, <<>>)

\* key a.b.a next to a nested a holding a dotted key: one sub-mapping a
C3_Witness ==
    /\ op.name = "_split_keys" /\ ~op.again /\ ret.exc = NoExc
    /\ \E i \in 1..Len(op.mapping), j \in 1..Len(op.mapping) :
        /\ op.mapping[i][1] = Kaba
        /\ op.mapping[j][1] = Ka /\ IsMapping(op.mapping[j][2])
        /\ \E n \in 1..Len(op.mapping[j][2].d) : Dotted(op.mapping[j][2].d[n][1], ".")
    /\ Len(ret.result) = 1

\* C4: splitting the result of a split again succeeds and returns an equal tree.
C4_SplitIdempotent ==
    (op.name = "_split_keys" /\ op.again) =>
        ret.exc = NoExc /\ PyEq(PyDict(ret.result), PyDict(op.mapping))

\* the second split of a mapping that had a key with two separators
C4_Witness ==
    /\ op.name = "_split_keys" /\ op.again /\ ret.exc = NoExc
    /\ \E i \in 1..Len(op.first) : op.first[i][1] = Kaba

\* C5: _split_keys raises MergeConflictError for a mapping that spells one
\* path with two different values, and the constructor fails with that error
\* when one of its sources is such a mapping.
C5_SplitConflictRaises ==
    /\ (op.name = "_split_keys" /\ Conflicting(Nodes(op.mapping, <<>>))) =>
            ret.exc = "MergeConflictError"
    /\ (op.name = "Configuration" /\ ~Consistent(op.sources)) =>
            ret.exc = "MergeConflictError" /\ phase = "failed"

\* the second source holds a scalar a next to a.b: no namespace is built
C5_Witness ==
    /\ op.name = "Configuration" /\ Len(op.sources) = 2 /\ phase = "failed"
    /\ ~Conflicting(Tree(unwrap(op.sources[1])))
    /\ HasLeaf(Tree(unwrap(op.sources[2])), <<Ka>>)
    /\ HasLeaf(Tree(unwrap(op.sources[2])), <<Ka, Kb>>)
    /\ ret.exc = "MergeConflictError"

\* C6: under the error policy _merge raises MergeConflictError exactly when
\* left and right hold unequal values, not both mappings, at some key path;
\* the error carries the dotted path of such a key from the top; a path with
\* equal values on both sides keeps its value in left.
C6_MergeConflict ==
    (op.name = "_merge" /\ op.conflict = "error") =>
        /\ (ret.exc = "MergeConflictError") = (SharedPaths(op.left, op.right, <<>>, TRUE) # {})
        /\ ret.exc \in {NoExc, "MergeConflictError"}
        /\ ret.exc = "MergeConflictError" =>
                ret.key \in {Join(".", path) : path \in SharedPaths(op.left, op.right, <<>>, TRUE)}
        /\ \A path \in SharedPaths(op.left, op.right, <<>>, FALSE) :
                ValueAt(ret.left, path) = ValueAt(op.left, path)

\* a conflict below a shared mapping, reported with its two-step path, next
\* to a key with equal values
C6_Witness ==
    /\ op.name = "_merge" /\ op.conflict = "error" /\ ret.exc = "MergeConflictError"
    /\ Len(ret.key) = 3
    /\ SharedPaths(op.left, op.right, <<>>, FALSE) # {}

-----------------------------------------------------------------------------
(* properties of lookups *)

Steps(path) == Split(path, ".")

\* how many steps lead from value through mappings that hold them
RECURSIVE Taken(_, _)
Taken(value, steps) ==
    IF steps = <<>> THEN 0
    ELSE IF value.k # "dict" THEN 0
    ELSE IF ~HasKey(value.d, Head(steps)) THEN 0
    ELSE 1 + Taken(Item(value.d, Head(steps)), Tail(steps))

\* some step of path cannot be taken in the tree
HasMissingStep(items, path) == Taken(PyDict(items), Steps(path)) < Len(Steps(path))

\* the value reached before the first step that cannot be taken
ReachedBefore(items, path) ==
    LET n == Taken(PyDict(items), Steps(path))
    IN  IF n = 0 THEN PyDict(items) ELSE ValueAt(items, SubSeq(Steps(path), 1, n))

\* the dotted prefix of path up to and including the first missing step
MissingPrefix(items, path) ==
    Join(".", SubSeq(Steps(path), 1, Taken(PyDict(items), Steps(path)) + 1))

\* a get, item or attribute lookup of a path with a missing step has been made
Missed(name) ==
    /\ phase = "done" /\ op.name = name
    /\ HasMissingStep(op.self.source, op.path)

C8_ItemMissRaisesNotConfigured ==
    Missed("__getitem__") =>
        /\ ret.exc = "NotConfiguredError"
        /\ ret.key = MissingPrefix(op.self.source, op.path)

\* C9 as stated: get(path, default=d) returns d whenever a step of path
\* cannot be taken, whether a mapping lacks the key or a scalar, string or
\* sequence was reached; no error escapes.
C9_DefaultReturnedOnAnyMiss ==
    (Missed("get") /\ op.given /\ op.default # NoDefault) => ret = Returned(op.default)

\* the text holds a reference token whose target has a missing step from the root
Dangling(value) ==
    /\ value.k = "str"
    /\ HasMatch(value.s)
    /\ HasMissingStep(root.source, Search(value.s).path)

\* the lookup made last accessed, resolving references, a string value with a
\* reference to a path that does not exist
AccessedDangling ==
    /\ phase = "done"
    /\ \/ /\ op.name \in {"get", "__getitem__", "__getattr__"}
          /\ op.name = "get" => op.resolve_references
          /\ ~HasMissingStep(op.self.source, op.path)
          /\ Dangling(ValueAt(op.self.source, Steps(op.path)))
       \/ /\ op.name = "ConfigurationSequence.__getitem__"
          /\ LET at == IF op.item < 0 THEN Len(op.self.source) + op.item + 1 ELSE op.item + 1
             IN  at \in 1..Len(op.self.source) /\ Dangling(op.self.source[at])

\* C10 as stated: every access to a string value holding a reference to a
\* path that does not exist raises ConfiguredReferenceError, for get with or
\* without a default, item access, attribute access under every missing
\* policy and sequence element access.
C10_DanglingReferenceRaises ==
    AccessedDangling => ret.exc = "ConfiguredReferenceError"

-----------------------------------------------------------------------------
(* properties of references *)

\* the position in a sequence that item selects
SeqAt(source, item) == IF item < 0 THEN Len(source) + item + 1 ELSE item + 1

\* the lookup made last reached a value and resolves references in it
Resolving ==
    /\ phase = "done"
    /\ \/ /\ op.name \in {"get", "__getitem__", "__getattr__"}
          /\ op.name = "get" => op.resolve_references
          /\ ~HasMissingStep(op.self.source, op.path)
       \/ /\ op.name = "ConfigurationSequence.__getitem__"
          /\ SeqAt(op.self.source, op.item) \in 1..Len(op.self.source)

\* the value in the tree that lookup reached
AccessedValue ==
    IF op.name = "ConfigurationSequence.__getitem__" THEN op.self.source[SeqAt(op.self.source, op.item)]
    ELSE ValueAt(op.self.source, Steps(op.path))

\* a str that is one reference token and nothing else
WholeToken(value) == value.k = "str" /\ MatchesAt(value.s, 1, Len(value.s))
TokenPath(value) == SubSeq(value.s, 3, Len(value.s) - 1)

\* the value the root's tree holds at a dotted path
Exists(path) == ~HasMissingStep(root.source, path)
Target(path) == ValueAt(root.source, Steps(path))

\* a value without reference tokens
ReferenceFree(value) == value.k # "str" \/ ~HasMatch(value.s)

\* what a lookup hands out for a tree value: a namespace or a sequence view
\* on the root for a mapping or a list, the value itself otherwise
Expected(value) ==
    IF value.k = "dict" THEN
        [k |-> "Configuration", source |-> value.d, missing |-> root.missing, root |-> root.root]
    ELSE IF value.k = "list" THEN
        [k |-> "ConfigurationSequence", source |-> value.e, root |-> root.root]
    ELSE value

\* C11: a lookup of a str that is exactly one reference token to an existing
\* path returns the target itself when the target holds no reference (an int
\* or bool as it is, a mapping as a namespace on the root, a list as a
\* sequence view), returns the target of the target when the target is again
\* one token, and never returns a str that still holds a reference token.
C11_WholeReferenceKeepsType ==
    (Resolving /\ WholeToken(AccessedValue) /\ Exists(TokenPath(AccessedValue))) =>
        LET t == Target(TokenPath(AccessedValue)) IN
        /\ ReferenceFree(t) => ret = Returned(Expected(t))
        /\ (WholeToken(t) /\ Exists(TokenPath(t)) /\ ReferenceFree(Target(TokenPath(t)))) =>
                ret = Returned(Expected(Target(TokenPath(t))))
        /\ ret.exc = NoExc => ReferenceFree(ret.val)

\* r = '${a}', a = '${b}', b = 2: config.r is the int 2
C11_Witness ==
    /\ Resolving /\ op.name = "__getattr__" /\ op.path = Kr
    /\ AccessedValue = PyStr(RefA)
    /\ Exists(Ka) /\ Target(Ka) = PyStr(RefB)
    /\ ret = Returned(PyInt(<<"2">>))

\* the paths of the reference tokens in a text
RefsOf(text) ==
    {SubSeq(text, i + 2, j - 1) : <<i, j>> \in {ij \in (1..Len(text)) \X (1..Len(text)) : MatchesAt(text, ij[1], ij[2])}}

\* every token of text, and of the strings the tokens lead to, names an
\* existing int, bool or str, and no chain of tokens leads back to a path in
\* chain
RECURSIVE Acyclic(_, _)
Acyclic(text, chain) ==
    \A path \in RefsOf(text) :
        /\ path \notin chain
        /\ Exists(path)
        /\ Target(path).k \in {"int", "bool", "str"}
        /\ Target(path).k = "str" => Acyclic(Target(path).s, chain \cup {path})

\* text with every token replaced by the text form of its target
RECURSIVE Render(_)
Render(text) ==
    IF ~HasMatch(text) THEN text
    ELSE LET match == Search(text)
             target == Target(match.path)
         IN  SubSeq(text, 1, match.start - 1)
                \o (IF target.k = "str" THEN Render(target.s) ELSE target.s)
                \o Render(SubSeq(text, match.stop + 1, Len(text)))

\* the lookup made last resolves a str with tokens that is more than one token
ResolvingTemplate ==
    /\ Resolving
    /\ AccessedValue.k = "str" /\ HasMatch(AccessedValue.s) /\ ~WholeToken(AccessedValue)

\* C12 as stated: a str with tokens embedded in text resolves to the text with
\* every token replaced by the text form of its target, for any number of
\* tokens, naming different paths or one path more than once, the targets
\* being scalars or strings with further non-cyclic references.
C12_TemplateRendersEveryToken ==
    (ResolvingTemplate /\ Acyclic(AccessedValue.s, {})) =>
        ret = Returned(PyStr(Render(AccessedValue.s)))

\* the paths of the tokens of a text, from left to right
RECURSIVE TokenSeq(_)
TokenSeq(text) ==
    IF ~HasMatch(text) THEN <<>>
    ELSE <<Search(text).path>> \o TokenSeq(SubSeq(text, Search(text).stop + 1, Len(text)))

\* an existing int, bool or str without tokens
PlainScalar(path) ==
    Exists(path) /\ Target(path).k \in {"int", "bool", "str"} /\ ReferenceFree(Target(path))

\* token n of tokens is the first one that names a mapping, the tokens before
\* it name plain scalars at different paths
FirstMapping(tokens, n) ==
    /\ Exists(tokens[n]) /\ Target(tokens[n]).k = "dict"
    /\ \A m \in 1..(n - 1) : PlainScalar(tokens[m])
    /\ \A m1 \in 1..(n - 1), m2 \in 1..(n - 1) : m1 # m2 => tokens[m1] # tokens[m2]

CannotInsert(path) == Raised("ConfiguredReferenceError", "cannot insert namespace", path, path)

Refs(path) ==
    IF Exists(path) /\ Target(path).k = "str" THEN RefsOf(Target(path).s) ELSE {}

\* the paths that chains of tokens lead to from the paths in set
RECURSIVE Closure(_)
Closure(set) ==
    LET more == set \cup UNION {Refs(path) : path \in set}
    IN  IF more = set THEN set ELSE Closure(more)

\* a chain of tokens leads from path back to path
OnCycle(path) == path \in Closure(Refs(path))

\* the lookup made last resolves a str whose tokens lead, through existing
\* scalars and strings only, into a cycle
ResolvingCycle ==
    /\ Resolving
    /\ AccessedValue.k = "str"
    /\ LET reached == Closure(RefsOf(AccessedValue.s)) IN
        /\ \A path \in reached : Exists(path) /\ Target(path).k \in {"int", "bool", "str"}
        /\ \E path \in reached : OnCycle(path)

\* C14 as stated: accessing a value whose references form a cycle of any
\* length raises ConfiguredReferenceError 'cannot resolve recursive
\* reference', naming a path on the cycle.
C14_CycleRaisesRecursiveReference ==
    ResolvingCycle =>
        /\ ret.exc = "ConfiguredReferenceError"
        /\ ret.msg = "cannot resolve recursive reference"
        /\ OnCycle(ret.named) /\ ret.key = ret.named

-----------------------------------------------------------------------------
(* properties of the missing policy *)

\* an attribute chain is under way that started at a name its namespace does
\* not hold, on a root constructed with the silent policy
SilentChain ==
    /\ phase = "done" /\ op.name = "__getattr__"
    /\ root.missing = NotConfigured
    /\ HasMissingStep(op.start[1].source, op.start[2])

\* C15: under the silent policy every attribute access of a chain that starts
\* at an unconfigured name returns the one NotConfigured sentinel and never
\* raises; the sentinel is falsy, empty and itself silent.
C15_SilentChainEndsInSentinel ==
    SilentChain =>
        /\ ret = Returned(NotConfigured)
        /\ ~Truthy(ret.val)
        /\ Len(Deref(ret.val).source) = 0
        /\ Deref(ret.val).missing = NotConfigured

\* config.x.a.k on a tree without x: the third access returns the sentinel
C15_Witness ==
    /\ SilentChain /\ op.depth = 3
    /\ op.start[2] = Kx /\ op.path = Kk
    /\ op.self.k = "NotConfigured"
    /\ ret.val = NotConfigured

\* an attribute access on a namespace derived from the root, or on the root,
\* for a name that namespace does not hold
UnconfiguredAttribute ==
    /\ phase = "done" /\ op.name = "__getattr__"
    /\ op.self.k = "Configuration"
    /\ ~HasKey(op.self.source, op.path)

\* what attribute access to an unconfigured name gives under a policy
PolicyOutcome(missing, attr) ==
    IF missing = MissingERROR THEN Raised("AttributeError", "", attr, attr)
    ELSE IF missing = MissingSILENT THEN Returned(NotConfigured)
    ELSE Returned(missing)

\* C16: attribute access to an unconfigured name on any namespace derived from
\* a root (by get, attribute or item access, from a mapping element of a
\* sequence view, or from a reference to a mapping) follows the policy the root
\* was constructed with: AttributeError under the error policy, the default
\* under a custom default, the sentinel under the silent policy.
C16_DerivedNamespaceKeepsPolicy ==
    UnconfiguredAttribute =>
        \E missing \in MissingPolicies :
            /\ root.missing = MissingAttribute(missing)
            /\ op.self.missing = root.missing
            /\ ret = PolicyOutcome(missing, op.path)

\* a = [{k: 1}] under the error policy: config.a[0].x raises AttributeError
C16_Witness ==
    /\ UnconfiguredAttribute
    /\ op.via = "ConfigurationSequence.__getitem__"
    /\ root.missing = NoDefault
    /\ op.self.source = << <<Kk, PyInt(<<"1">>)>> >>
    /\ op.path = Kx
    /\ ret.exc = "AttributeError"

-----------------------------------------------------------------------------
(* properties of equality *)

\* a namespace has been compared with a namespace or a plain mapping
ComparedMappings == phase = "done" /\ op.name = "__eq__"

\* C17: a comparison of a namespace with a namespace or a plain mapping gives
\* True when their unwrapped source trees are equal and False when they are
\* not, whatever the policies and whatever the trees hold.
C17_EqualIffTreesEqual ==
    ComparedMappings =>
        ret = Returned(IF PyEq(unwrap(op.left), unwrap(op.right)) THEN PyTrue ELSE PyFalse)

\* a sequence view has been compared with a sequence, and every element of
\* both resolves
ComparedSequences ==
    /\ phase = "done" /\ op.name = "ConfigurationSequence.__eq__"
    /\ \A i \in 1..Len(Elements(op.left)) : Elements(op.left)[i].exc = NoExc
    /\ \A i \in 1..Len(Elements(op.right)) : Elements(op.right)[i].exc = NoExc

\* equal length and pairwise equal elements, after wrapping and resolution
PairwiseEqual(left, right) ==
    /\ Len(left) = Len(right)
    /\ \A i \in 1..Len(left) : PyEq(unwrap(left[i].val), unwrap(right[i].val))

\* C18: a sequence view compared with a view or a plain list gives True exactly
\* when both have the same length and their elements, after wrapping and
\* reference resolution, are pairwise equal.
C18_SequenceEqualPairwise ==
    ComparedSequences =>
        ret = Returned(IF PairwiseEqual(Elements(op.left), Elements(op.right))
                       THEN PyTrue ELSE PyFalse)

-----------------------------------------------------------------------------
(* properties of unions *)

\* a union of op.a and op.b has been evaluated, by an operator or by merge
UnionDone == phase \in {"merged", "again"} /\ op.name \in {"__or__", "__ror__", "__ior__", "merge"}

\* the policies of the operands that are namespaces
OperandPolicies == MissingOf(<<op.a, op.b>>)

\* C19: without a missing argument a union raises ValueError exactly when the
\* namespace operands carry more than one policy, and its result carries
\* their single policy otherwise, the silent one when no operand is a
\* namespace; with a missing argument it never raises and the result carries
\* the argument's policy.
C19_PolicyOfUnion ==
    UnionDone =>
        IF op.given THEN
            ret.exc = NoExc /\ ret.val.missing = MissingAttribute(op.missing)
        ELSE IF Cardinality(OperandPolicies) > 1 THEN ret.exc = "ValueError"
        ELSE
            /\ ret.exc = NoExc
            /\ ret.val.missing = IF OperandPolicies = {} THEN NotConfigured
                                 ELSE CHOOSE policy \in OperandPolicies : TRUE

\* the | operator (or |=) has returned a namespace
OperatorUnion ==
    /\ phase \in {"merged", "again"} /\ op.name \in {"__or__", "__ror__", "__ior__"}
    /\ ret.exc = NoExc

\* the dict objects a heap value refers to, directly or through other dicts
RECURSIVE Reach(_, _)
Reach(h, value) ==
    IF value.k = "Configuration" THEN Reach(h, value.source)
    ELSE IF value.k = "ref" THEN
        {value.id} \cup UNION {Reach(h, h[value.id][i][2]) : i \in 1..Len(h[value.id])}
    ELSE {}

\* the tree an operand spells, with dotted keys split
SplitTree(h, value) == _split_keys(TreeOf(h, value).d, ".", <<>>, 1).result

\* the key paths at which both operands hold a value, not both a mapping
BothDefine ==
    UNION {SharedPaths(SplitTree(op.before, op.a), SplitTree(op.before, op.b), <<>>, differ) :
              differ \in BOOLEAN}

\* C20: a | b, b's reverse form for a plain mapping a, and a |= b return a new
\* namespace, none of whose dicts is a dict of an operand, that holds a value
\* equal to b's at every path both operands define; every dict that existed
\* before the first union is unchanged, also after the result has been merged
\* further, and a |= b gives a namespace other than a.
C20_UnionLeavesOperands ==
    OperatorUnion =>
        /\ ret.val.k = "Configuration"
        /\ \A id \in Reach(heap, ret.val) : id > Len(op.before)
        /\ \A path \in BothDefine :
            PyEq(ValueAt(TreeOf(heap, ret.val).d, path), ValueAt(SplitTree(op.before, op.b), path))
        /\ \A id \in 1..Len(op.before) : heap[id] = op.before[id]
        /\ \A id \in 1..Len(op.original) : heap[id] = op.original[id]
        /\ op.name = "__ior__" => ret.val.source # op.a.source

\* (a | b) | {a.k: 3} for the result {a: {k: 2}, b: 1} of a first union: the
\* new result holds 3 at a.k, the first result and its operands are unchanged
C20_Witness ==
    /\ OperatorUnion /\ phase = "again" /\ op.name = "__or__"
    /\ TreeOf(op.before, op.a) = PyDict(<< <<Ka, PyDict(<< <<Kk, PyInt(<<"2">>)>> >>)>>, <<Kb, PyInt(<<"1">>)>> >>)
    /\ TreeOf(op.before, op.b) = PyDict(<< <<Kak, PyInt(<<"3">>)>> >>)
    /\ TreeOf(heap, ret.val) = PyDict(<< <<Ka, PyDict(<< <<Kk, PyInt(<<"3">>)>> >>)>>, <<Kb, PyInt(<<"1">>)>> >>)
    /\ TreeOf(heap, op.a) = TreeOf(op.before, op.a)
    /\ \E id \in 1..Len(op.original) :
        TreeOf(heap, Ref(id)) = PyDict(<< <<Ka, PyDict(<< <<Kk, PyInt(<<"1">>)>> >>)>>, <<Kb, PyInt(<<"1">>)>> >>)
    /\ BothDefine = {<<Ka, Kk>>}

\* a union of the NotConfigured sentinel and the operand op.other has been
\* evaluated
SentinelUnion == phase = "merged" /\ op.name = "sentinel"

-----------------------------------------------------------------------------
(* properties of conversion *)

\* get(path, as_type=f) has been called on a path every step of which is
\* configured
Converted ==
    /\ phase = "done" /\ op.name = "get as_type"
    /\ ~HasMissingStep(op.self.source, op.path)

\* C22: get(path, as_type=f) on a configured path returns f(value) for the
\* stored value, unwrapped and unresolved, and an exception f raises, of
\* whatever class, is the exception the call raises.
C22_ConversionOutcomeReachesCaller ==
    Converted => ret = ApplyType(op.as_type, ValueAt(op.self.source, Steps(op.path)))

-----------------------------------------------------------------------------
(* properties of the unresolvable-reference error *)

\* the lookup made last (get, item, attribute or sequence element access)
\* raised the error for a reference that cannot be resolved
UnresolvableRaised ==
    /\ phase = "done"
    /\ op.name \in {"get", "__getitem__", "__getattr__", "ConfigurationSequence.__getitem__"}
    /\ ret.exc = "ConfiguredReferenceError" /\ ret.msg = "unable to resolve referenced key"

\* C23: the unresolvable-reference error names, in its message, the path of a
\* token that has a missing step from the root (the path of the token of the
\* value accessed when that value is one dangling token), and its key is that
\* path up to and including the first step a mapping of the root's tree
\* lacks: a path that does not exist, so never the path of the value asked
\* for.
C23_UnresolvableNamesMissingKey ==
    UnresolvableRaised =>
        /\ HasMissingStep(root.source, ret.named)
        /\ IsMapping(ReachedBefore(root.source, ret.named))
        /\ ret.key = MissingPrefix(root.source, ret.named)
        /\ HasMissingStep(root.source, ret.key)
        /\ (Resolving /\ WholeToken(AccessedValue) /\ Dangling(AccessedValue)) =>
                ret.named = TokenPath(AccessedValue)

\* ns.r = '${a.k}' on a tree without a: config.get('ns.r') names a.k in the
\* message and has the key a
C23_Witness ==
    /\ UnresolvableRaised /\ op.name = "get" /\ op.path = Knsr
    /\ AccessedValue = PyStr(RefAK)
    /\ ret.named = Kak /\ ret.key = Ka

-----------------------------------------------------------------------------
(* properties of the source tree *)

\* value is a namespace or a sequence view, or a mapping or sequence that
\* holds one at some depth
RECURSIVE HoldsWrapper(_)
HoldsWrapper(value) ==
    IF value.k \in {"Configuration", "ConfigurationSequence"} THEN TRUE
    ELSE IF value.k = "dict" THEN \E i \in 1..Len(value.d) : HoldsWrapper(value.d[i][2])
    ELSE IF value.k = "list" THEN \E i \in 1..Len(value.e) : HoldsWrapper(value.e[i])
    ELSE FALSE

\* C24: after construction from sources that are namespaces or hold
\* namespaces and sequence views, in mappings and in sequences, the _source
\* of the new namespace holds no namespace and no sequence view at any depth.
C24_SourceHoldsNoWrapper ==
    (phase = "wrapped" /\ ret.exc = NoExc) => ~HoldsWrapper(PyDict(root.source))

-----------------------------------------------------------------------------
(* properties of the root pointer *)

\* a lookup or an element access on the object op.self handed out a
\* namespace or a sequence view, the object op.made
HandedOut ==
    /\ phase = "objects"
    /\ op.name \in {"get", "__getattr__", "ConfigurationSequence.__getitem__"}
    /\ op.made # 0

-----------------------------------------------------------------------------
(* properties of the frame of the public operations *)

\* an assignment to an attribute whose name does not start with an underscore
\* has been attempted on the namespace op.self
PublicAssigned == phase = "objects" /\ op.name = "__setattr__" /\ op.attr[1] # "_"

-----------------------------------------------------------------------------
(* properties of the sources of a construction *)

\* Configuration(op.a, op.b) has returned a namespace
ConstructedOver == phase = "constructed" /\ op.name = "Configuration" /\ ret.exc = NoExc

\* the dict objects a heap value refers to, through dicts and through lists
RECURSIVE ReachAll(_, _)
ReachAll(h, value) ==
    IF value.k = "Configuration" THEN ReachAll(h, value.source)
    ELSE IF value.k = "ref" THEN
        {value.id} \cup UNION {ReachAll(h, h[value.id][i][2]) : i \in 1..Len(h[value.id])}
    ELSE IF value.k = "list" THEN UNION {ReachAll(h, value.e[i]) : i \in 1..Len(value.e)}
    ELSE {}

\* every dict that existed before the construction is as it was
SourcesUnchanged == \A id \in 1..Len(op.before) : heap[id] = op.before[id]

\* the dicts of the new namespace that are dicts of a source
SharedWithSources ==
    ReachAll(heap, ret.val) \cap (ReachAll(op.before, op.a) \cup ReachAll(op.before, op.b))

\* C27: a construction changes no dict of its sources, a plain mapping or the
\* tree of a namespace, at any depth, and the new namespace refers to no
\* dict that a source refers to.
C27_SourcesUnchangedUnshared ==
    ConstructedOver => SourcesUnchanged /\ SharedWithSources = {}

\* what the code does keep: no dict of a source is changed, the dicts the new
\* namespace reaches through mappings are all new, and a dict is shared
\* exactly when a list of a source holds it
SourcesUnchangedSharedInLists ==
    ConstructedOver =>
        /\ SourcesUnchanged
        /\ \A id \in Reach(heap, ret.val) : id > Len(op.before)
        /\ \A id \in SharedWithSources :
            id \notin Reach(op.before, op.a) \cup Reach(op.before, op.b)

-----------------------------------------------------------------------------
(* properties of the right operand of a merge *)

\* _merge has been called on the left mapping op.left; op.first is the right
\* operand of the first call, op.right the right operand of the last one
Merging == phase \in {"merging", "merged more"} /\ op.name = "_merge"

\* C30: after any sequence of merges into one left mapping, every mapping
\* that was passed as a right operand, and every mapping nested in it, has
\* the content it had when it was passed.
C30_RightUnchanged ==
    Merging =>
        /\ \A id \in ReachAll(op.original, op.first) : heap[id] = op.original[id]
        /\ \A id \in ReachAll(op.before, op.right) : heap[id] = op.before[id]

\* what the code does keep: one merge leaves its right operand as it was,
\* and so does every merge that raises or that writes to no mapping the left
\* took over from an earlier right operand
C30_OneMergeLeavesRight ==
    Merging => \A id \in ReachAll(op.before, op.right) : heap[id] = op.before[id]

-----------------------------------------------------------------------------
(* properties of the resolve loop *)

\* _resolve has returned or raised
ResolveEnded == phase = "resolved" /\ op.name = "_resolve"

\* C28: the loop of _resolve ends, with a value that is no str or a str
\* without a reference token, or with a reference error.
C28_ResolveEndsInValueOrReferenceError ==
    ResolveEnded =>
        \/ ret.exc = NoExc /\ (ret.val.k # "str" \/ ~HasMatch(ret.val.s))
        \/ ret.exc = "ConfiguredReferenceError"

\* the paths that lead to a value in a tree
RECURSIVE ConfiguredPaths(_)
ConfiguredPaths(items) ==
    UNION {{items[i][1]} \cup
           (IF items[i][2].k = "dict"
            THEN {items[i][1] \o <<".">> \o rest : rest \in ConfiguredPaths(items[i][2].d)}
            ELSE {}) : i \in 1..Len(items)}

\* what the code does keep: every path of a pass that went on is a configured
\* path not seen before, so that the loop takes no more passes than the tree
\* has paths; it ends as the recursive definition of _resolve says, with a
\* value without a token, a reference error, or the TypeError of a path
\* that leads through a value that is no mapping
ResolvePassesBounded ==
    /\ phase \in {"resolving", "resolved"} =>
        /\ op.references \subseteq ConfiguredPaths(op.self.source)
        /\ op.passes = Cardinality(op.references)
    /\ ResolveEnded =>
        /\ ret = _resolve(op.self, op.value)
        /\ \/ ret.exc = NoExc /\ (ret.val.k # "str" \/ ~HasMatch(ret.val.s))
           \/ ret.exc \in {"ConfiguredReferenceError", "TypeError"}

\* every pass of a running loop ends it or adds a path to the paths seen:
\* with ResolvePassesBounded, a loop ends after at most as many passes as the
\* tree has paths, and one more test
ResolveProgress ==
    [][phase = "resolving" =>
          \/ phase' = "resolved"
          \/ /\ phase' = "resolving"
             /\ op'.passes = op.passes + 1
             /\ op.references \subseteq op'.references /\ op'.references # op.references
             /\ Cardinality(op'.references) <= Cardinality(ConfiguredPaths(op.self.source))]_vars

-----------------------------------------------------------------------------
(* properties of lookups through views *)

\* self.get(op.path).get(op.rest) has been evaluated
Composed == phase = "done" /\ op.name = "get.get"

\* C29: where path leads to a mapping of the tree, get(path).get(rest) has
\* the outcome of get(path.rest): the same value, the same namespace or
\* sequence view with the same root, the same resolved reference, the same
\* error; a reference reached through the nested namespace is looked up
\* from the root.
C29_LookupComposes ==
    Composed => ret = get(op.self, op.path \o <<".">> \o op.rest, GetDefault, "None", TRUE)

\* get(ns).get(r), where ns.r is the reference ${a.k} and a is a key of the
\* root only, has returned the int at a.k
C29_Witness ==
    /\ Composed /\ op.path = Kns /\ op.rest = Kr /\ op.self.source = root.source
    /\ ValueAt(root.source, <<Kns, Kr>>) = PyStr(RefAK)
    /\ ~HasKey(ValueAt(root.source, <<Kns>>).d, Ka)
    /\ ret = Returned(PyInt(<<"1">>))

====
